---- MODULE Spec2Model ----
(***************************************************************************)
(* A model of the Nonogram solver of this repository (src/*.py): the       *)
(* two-bit line words, the line DP and its driver, the work queue, the     *)
(* line cache, the cell prober, the recursive and the resumable search.    *)
(* Words are integers as in the code; Python lists are objects of a heap,  *)
(* so that two boards sharing one list are told from two equal boards.     *)
(***************************************************************************)
EXTENDS Integers, Sequences, FiniteSets, TLC

\* ------------------------------------------------------------------ bounds
\* Board side. config.py has 25; the model runs the same code on a small board.
P_SIZE == 5
\* Longest clue (number of runs) drawn for one line.
MaxCount == 2
\* Frames of the recursive searches before Python's RecursionError (Python's
\* limit is 1000 frames; the model's searches are cut the same way, sooner).
RecursionLimit == 3

\* config.py STACK_MAX_DEPTH: the number of levels of the resumable search
\* (626 in the program).
STACK_MAX_DEPTH == 3
\* Cells probed one after the other by a caller of solve_one_two_sat.
MaxProbes == 2
\* Largest node limit handed to resumable_solver.
MaxNodeLimit == 2
\* Puzzles one process solves in a row.
MaxPuzzles == 2
\* Operations made on the work queue by the queue specification.
MaxQueueOps == 4

\* --------------------------------------------------------------- constants
S_SIZE == P_SIZE * P_SIZE
SOLVED == 0
UNSOLVED == 1
CONFLICT == 2
TIMEOUT == 3
MANY_SOLUTION == 4
SQUARE_BLOCK == 1
SQUARE_SPACE == 2
SQUARE_UNKNOWN == 3
SQUARE == 3

\* (1 << (P_SIZE * 2)) - 1: the word of a line whose cells are all UNKNOWN.
FullWord == 4 ^ P_SIZE - 1
Words == 0 .. FullWord
Cells == 0 .. P_SIZE - 1
Lines == 0 .. 2 * P_SIZE - 1

\* ------------------------------------------------- Python's integer operators
RECURSIVE BitAnd(_, _)
\* a & b on non-negative integers.
BitAnd(a, b) ==
  IF a = 0 \/ b = 0 THEN 0
  ELSE (a % 2) * (b % 2) + 2 * BitAnd(a \div 2, b \div 2)

RECURSIVE BitOr(_, _)
\* a | b on non-negative integers.
BitOr(a, b) ==
  IF a = 0 THEN b
  ELSE IF b = 0 THEN a
  ELSE (IF a % 2 = 1 \/ b % 2 = 1 THEN 1 ELSE 0) + 2 * BitOr(a \div 2, b \div 2)

RECURSIVE BitXor(_, _)
\* a ^ b on non-negative integers.
BitXor(a, b) ==
  IF a = 0 THEN b
  ELSE IF b = 0 THEN a
  ELSE ((a + b) % 2) + 2 * BitXor(a \div 2, b \div 2)

RECURSIVE AndNot(_, _)
\* a & ~b for non-negative a and b (~b is negative in Python: all high bits set).
AndNot(a, b) ==
  IF a = 0 THEN 0
  ELSE (IF a % 2 = 1 /\ b % 2 = 0 THEN 1 ELSE 0) + 2 * AndNot(a \div 2, b \div 2)

\* ------------------------------------------------------------------ bit.py
\* (a >> (s * 2)) & ((1 << (P_SIZE * 2)) - 1), for s >= 0.
shift_r(a, s) == (a \div (4 ^ s)) % (4 ^ P_SIZE)

\* (a << (s * 2)) & ((1 << (P_SIZE * 2)) - 1), for s >= 0.
shift_l(a, s) == (a * (4 ^ s)) % (4 ^ P_SIZE)

\* Python raises ValueError("negative shift count") for a << n and a >> n, n < 0.
NegativeShift(s) == s * 2 < 0

\* The state of cell k of a line word.
CellOf(w, k) == BitAnd(shift_r(w, k), SQUARE)

\* ---------------------------------------------------------------- puzzle.py
\* A LineNumbers object as read_buffer leaves it for the token ns (a sequence
\* of numbers, one per character: ord(char) - ord('a') + 1).  m_sum is the
\* running total of the numbers.  hash_key is the XOR of the table entries
\* z_hash_key_table[tmp_index][num] of the numbers above zero; the table is a
\* table of independent random constants, so the XOR is kept as the set of
\* the entries it combines.
RECURSIVE SumTo(_, _)
SumTo(ns, k) == IF k = 0 THEN 0 ELSE SumTo(ns, k - 1) + ns[k]

RECURSIVE ZKey(_, _, _)
ZKey(ns, k, tmp_index) ==
  IF k > Len(ns) THEN {}
  ELSE IF ns[k] > 0 THEN {<<tmp_index, ns[k]>>} \cup ZKey(ns, k + 1, tmp_index + 1)
  ELSE ZKey(ns, k + 1, tmp_index)

ParsedLine(ns) ==
  [ m_count   |-> Len(ns),
    m_numbers |-> [k \in 0 .. P_SIZE + 1 |-> IF 1 <= k /\ k <= Len(ns) THEN ns[k] ELSE 0],
    m_sum     |-> [k \in 0 .. P_SIZE + 1 |-> IF 1 <= k /\ k <= Len(ns) THEN SumTo(ns, k) ELSE 0],
    hash_key  |-> ZKey(ns, 1, 0) ]

\* A LineNumbers object as constructed, which is also what read_buffer leaves
\* for a line the buffer has no token for (m_count = 0).
LineNumbers ==
  [ m_count   |-> 0,
    m_numbers |-> [k \in 0 .. P_SIZE + 1 |-> 0],
    m_sum     |-> [k \in 0 .. P_SIZE + 1 |-> 0],
    hash_key  |-> {} ]

\* ----------------------------------------------------------- line_solver.py
\* dp_table has P_SIZE + 1 rows of (P_SIZE + 1) // 2 columns.
DpCols == (P_SIZE + 1) \div 2

dp_table == [i \in 0 .. P_SIZE |-> [j \in 0 .. DpCols - 1 |-> UNSOLVED]]

\* block_mask[n]: n cells of 01.
block_mask(n) == (4 ^ n - 1) \div 3

\* The state one DP run threads through its calls: the memo table, the word
\* settle_string[0], the exception in flight ("none" if none) and the value
\* returned by the call that just ended.
DpStart == [dp |-> dp_table, settle |-> 0, exc |-> "none", ret |-> FALSE]

Ret(st, b) == [st EXCEPT !.ret = b]
Raise(st, e) == [st EXCEPT !.exc = e, !.ret = FALSE]
SetDp(st, i, j, v) == [st EXCEPT !.dp[i][j] = v]

RECURSIVE sprint_settle(_, _, _, _, _)

\* Lines 67-87: try to end run j at cell i - 1.  early: the call returns here.
TryBlock(des, in_string, i, j, st, now_square) ==
  LET n == des.m_numbers[j]
      position_of_block == i - n
  IN IF position_of_block < 0
       THEN [st |-> Ret(SetDp(st, i, j, CONFLICT), FALSE), early |-> TRUE, valid |-> FALSE]
     ELSE IF NegativeShift(position_of_block - 1)
       THEN [st |-> Raise(st, "ValueError"), early |-> TRUE, valid |-> FALSE]
     ELSE
       LET this_block_mask == BitOr(shift_l(block_mask(n), position_of_block),
                                    shift_l(SQUARE_SPACE, position_of_block - 1))
           should_try_block == AndNot(this_block_mask, in_string) = 0
       IN IF now_square # SQUARE_SPACE /\ should_try_block
            THEN LET r == sprint_settle(des, in_string, position_of_block - 1, j - 1, st)
                 IN IF r.exc # "none"
                      THEN [st |-> r, early |-> TRUE, valid |-> FALSE]
                    ELSE IF r.ret
                      THEN [st |-> [r EXCEPT !.settle = BitOr(@, this_block_mask)],
                            early |-> FALSE, valid |-> TRUE]
                    ELSE [st |-> r, early |-> FALSE, valid |-> FALSE]
          ELSE [st |-> st, early |-> FALSE, valid |-> FALSE]

\* A space try that does not look at the cell's colour (the check of line 90
\* left out).
TrySpaceAnyCell(des, in_string, i, j, st, now_square) ==
  IF i > des.m_sum[j]
    THEN LET r == sprint_settle(des, in_string, i - 1, j, st)
         IN IF r.exc # "none"
              THEN [st |-> r, early |-> TRUE, valid |-> FALSE]
            ELSE IF r.ret
              THEN [st |-> [r EXCEPT !.settle = BitOr(@, shift_l(SQUARE_SPACE, i - 1))],
                    early |-> FALSE, valid |-> TRUE]
            ELSE [st |-> r, early |-> FALSE, valid |-> FALSE]
  ELSE [st |-> st, early |-> FALSE, valid |-> FALSE]

\* A space try that does not look at the cell's colour and settles the cell
\* as a block (line 92 with SQUARE_BLOCK).
TrySpaceAsBlock(des, in_string, i, j, st, now_square) ==
  IF i > des.m_sum[j]
    THEN LET r == sprint_settle(des, in_string, i - 1, j, st)
         IN IF r.exc # "none"
              THEN [st |-> r, early |-> TRUE, valid |-> FALSE]
            ELSE IF r.ret
              THEN [st |-> [r EXCEPT !.settle = BitOr(@, shift_l(SQUARE_BLOCK, i - 1))],
                    early |-> FALSE, valid |-> TRUE]
            ELSE [st |-> r, early |-> FALSE, valid |-> FALSE]
  ELSE [st |-> st, early |-> FALSE, valid |-> FALSE]

\* Lines 90-93: try a white cell at i - 1.
TrySpace(des, in_string, i, j, st, now_square) ==
  IF now_square # SQUARE_BLOCK /\ i > des.m_sum[j]
    THEN LET r == sprint_settle(des, in_string, i - 1, j, st)
         IN IF r.exc # "none"
              THEN [st |-> r, early |-> TRUE, valid |-> FALSE]
            ELSE IF r.ret
              THEN [st |-> [r EXCEPT !.settle = BitOr(@, shift_l(SQUARE_SPACE, i - 1))],
                    early |-> FALSE, valid |-> TRUE]
            ELSE [st |-> r, early |-> FALSE, valid |-> FALSE]
  ELSE [st |-> st, early |-> FALSE, valid |-> FALSE]

\* The line DP: can the first i cells of in_string hold the first j runs?
\* dp_table[i][j] with j >= DpCols raises IndexError.
sprint_settle(des, in_string, i, j, st) ==
  IF (i = -1 \/ i = 0) /\ j = 0 THEN Ret(st, TRUE)
  ELSE IF i < 0 THEN Ret(st, FALSE)
  ELSE IF j >= DpCols THEN Raise(st, "IndexError")
  ELSE IF i = 0 THEN Ret(SetDp(st, i, j, CONFLICT), FALSE)
  ELSE IF st.dp[i][j] = CONFLICT THEN Ret(st, FALSE)
  ELSE IF st.dp[i][j] = SOLVED THEN Ret(st, TRUE)
  ELSE
    LET now_square == BitAnd(shift_r(in_string, i - 1), SQUARE)
        b == IF j > 0 THEN TryBlock(des, in_string, i, j, st, now_square)
             ELSE [st |-> st, early |-> FALSE, valid |-> FALSE]
    IN IF b.early THEN b.st
       ELSE LET s == TrySpace(des, in_string, i, j, b.st, now_square)
                is_valid == b.valid \/ s.valid
            IN IF s.early THEN s.st
               ELSE Ret(SetDp(s.st, i, j, IF is_valid THEN SOLVED ELSE CONFLICT), is_valid)

\* Lines 131-139 of the driver: reset the memo table and run the DP on a line.
RunDp(des, w) == sprint_settle(des, w, P_SIZE, des.m_count, DpStart)

\* count64: the SWAR bit count of bit.py.  Python integers do not wrap at 64
\* bits, so the closing product keeps the partial sums of the bytes above the
\* low one: ((v * 0x0101010101010101) >> 56) is v + (v >> 8) + (v >> 16) + ...
\* for a v whose bytes are at most 8.  The masks are cut to the 32 bits the
\* words of the model stay within.
RECURSIVE ByteSums(_)
ByteSums(v) == IF v = 0 THEN 0 ELSE v + ByteSums(v \div 256)

count64(block) ==
  LET b1 == block - BitAnd(block \div 2, 1431655765)
      b2 == BitAnd(b1 \div 4, 858993459) + BitAnd(b1, 858993459)
      v  == BitAnd(b2 + b2 \div 16, 252645135)
  IN ByteSums(v)

\* MASK50: 0x3FFFFFFFFFFFF, the 50 bits of a line of 25 cells; on the board of
\* the model, the 2 * P_SIZE bits of a line.
MASK50 == 4 ^ P_SIZE - 1

COUNT64(x) == count64(BitAnd(x, MASK50))

\* ------------------------------------------------------------ node_queue.py
max_size == P_SIZE * 2 + 1

\* MyQueue(): the queue as constructed.
MyQueue ==
  [ in_q   |-> [i \in Lines |-> FALSE],
    data_q |-> [k \in 0 .. P_SIZE * 2 |-> 0],
    f_pos  |-> 0,
    r_pos  |-> 0 ]

\* A clear() that leaves the queue as it is (lines 88-92 left out).
KeepQueue(q) == q

\* initial() and clear() reset the membership flags and both positions and
\* leave data_q as it is.
initial(q) == [q EXCEPT !.in_q = [i \in Lines |-> FALSE], !.f_pos = 0, !.r_pos = 0]
clear(q) == [q EXCEPT !.in_q = [i \in Lines |-> FALSE], !.f_pos = 0, !.r_pos = 0]

\* push_q without the membership guard of lines 60-61.
push_q_unguarded(q, index) ==
  [q EXCEPT !.data_q[q.r_pos] = index,
            !.r_pos = (q.r_pos + 1) % max_size,
            !.in_q[index] = TRUE]

push_q(q, index) ==
  IF q.in_q[index] THEN q
  ELSE [q EXCEPT !.data_q[q.r_pos] = index,
                 !.r_pos = (q.r_pos + 1) % max_size,
                 !.in_q[index] = TRUE]

\* pop_and_front: the queue after the pop; front is the value it returns.
front(q) == q.data_q[q.f_pos]
pop_and_front(q) ==
  [q EXCEPT !.f_pos = (q.f_pos + 1) % max_size, !.in_q[front(q)] = FALSE]

is_empty(q) == q.r_pos = q.f_pos

\* ------------------------------------------------------------ dependency.py
\* The tables are bit sets of line indexes (bit i for line i); the model keeps
\* each as the set of its lines: |= is union, & intersection, 0 the empty set.
DependencyTable ==
  [ point_tables      |-> [i \in Cells |-> [j \in Cells |-> {}]],
    update_table      |-> {},
    temp_update_table |-> {},
    this_update_table |-> {},
    this_temp_table   |-> {} ]

\* ------------------------------------------------------------ the line cache
\* hash_table.py is not part of the sources; the cache is the one the
\* specification describes: a table from the full key (clue.hash_key, w) to
\* the settled word, found only under the same full key.
initial_hash == <<>>

find_hash(cache, line, w) ==
  IF <<line.hash_key, w>> \in DOMAIN cache
    THEN [found |-> TRUE, settle |-> cache[<<line.hash_key, w>>]]
    ELSE [found |-> FALSE, settle |-> 0]

insert_hash(cache, line, w, settle) ==
  [k \in DOMAIN cache \cup {<<line.hash_key, w>>} |->
     IF k = <<line.hash_key, w>> THEN settle ELSE cache[k]]

\* ------------------------------------------------------- boards on the heap
\* A list object (col_string or row_string of some Board) is an entry of the
\* heap; a Board is its counter and the references of its two lists.
ZeroList == [k \in Cells |-> 0]

\* Board(): two new lists of zero words.
Board(h) ==
  [ heap  |-> h \o <<ZeroList, ZeroList>>,
    board |-> [ num_of_square_on_board |-> 0,
                col_string |-> Len(h) + 1,
                row_string |-> Len(h) + 2 ] ]

\* copy.deepcopy(b): a Board with new lists of the same words.
deepcopy(b, h) ==
  [ heap  |-> h \o <<h[b.col_string], h[b.row_string]>>,
    board |-> [ num_of_square_on_board |-> b.num_of_square_on_board,
                col_string |-> Len(h) + 1,
                row_string |-> Len(h) + 2 ] ]

\* dst.__dict__.update(src.__dict__): dst takes src's counter and src's two
\* list objects themselves, so that the boards share the lists from then on.
DictUpdate(dst, src) == src

\* A set_square that writes the column list only (line 75 left out).
set_square_col_only(x, y, sol, i_set, h) ==
  [h EXCEPT ![sol.col_string][x] = AndNot(@, shift_l(i_set, y))]

\* set_square: clears the bits of i_set in cell (x, y) of both lists.
set_square(x, y, sol, i_set, h) ==
  LET h1 == [h EXCEPT ![sol.col_string][x] = AndNot(@, shift_l(i_set, y))]
  IN [h1 EXCEPT ![sol.row_string][y] = AndNot(@, shift_l(i_set, x))]

get_square(x, y, sol, h) == BitAnd(shift_r(h[sol.row_string][y], x), SQUARE)

\* The engine state the solver functions work on: the heap, the work queue
\* NodeQueue.myQ (q), db_table (db), the line cache, the static trial boards
\* of search_solver (sb, sw) and of search_verify (vb, vw), and the exception
\* in flight (exc, "none" if none).  nocache makes every lookup miss.
\* init_board: every word all-UNKNOWN, counter 0, queue reset, all lines pushed.
RECURSIVE PushAll(_, _)
PushAll(q, i) == IF i >= P_SIZE * 2 THEN q ELSE PushAll(push_q(q, i), i + 1)

init_board(sol, m) ==
  [ sol |-> [sol EXCEPT !.num_of_square_on_board = 0],
    m   |-> [m EXCEPT !.heap = [@ EXCEPT ![sol.col_string] = [k \in Cells |-> FullWord],
                                         ![sol.row_string] = [k \in Cells |-> FullWord]],
                      !.q = PushAll(initial(@), 0)] ]

set_and_flag(i, j, sol, to_set, m) ==
  [ sol |-> [sol EXCEPT !.num_of_square_on_board = @ + 1],
    m   |-> [m EXCEPT !.heap = set_square(i, j, sol, to_set, @),
                      !.q = push_q(push_q(@, i), j + P_SIZE)] ]

\* ------------------------------------------------- line_solver.py: the driver
\* Lines 154-171: apply the cleared bits cell by cell from cell j on.
RECURSIVE ApplyChange(_, _, _, _, _)
ApplyChange(i, j, change, sol, m) ==
  IF change = 0 \/ j >= P_SIZE THEN [sol |-> sol, m |-> m]
  ELSE
    LET temp == BitAnd(change, 3)
    IN IF temp # 0
         THEN ApplyChange(i, j + 1, change \div 4,
                [sol EXCEPT !.num_of_square_on_board = @ + 1],
                [m EXCEPT !.heap = IF i < P_SIZE
                                     THEN set_square(i, j, sol, temp, @)
                                     ELSE set_square(j, i - P_SIZE, sol, temp, @),
                          !.q = push_q(@, IF i < P_SIZE THEN j + P_SIZE ELSE j)])
       ELSE ApplyChange(i, j + 1, change \div 4, sol, m)

\* A driver that never finds a line in the cache (the lookup of line 127
\* always missing) and runs the DP on every line it pops.
RECURSIVE line_solver_uncached(_, _, _)
line_solver_uncached(prob, sol, m) ==
  IF is_empty(m.q)
    THEN [m |-> m, sol |-> sol,
          ret |-> IF sol.num_of_square_on_board = S_SIZE THEN SOLVED ELSE UNSOLVED]
  ELSE
    LET i == front(m.q)
        m1 == [m EXCEPT !.q = pop_and_front(@),
                        !.db.this_temp_table = @ \cup {i}]
        current_string == IF i < P_SIZE THEN m.heap[sol.col_string][i]
                          ELSE m.heap[sol.row_string][i - P_SIZE]
        Applied(a) == line_solver_uncached(prob, a.sol, a.m)
        Missed(r) ==
          IF r.exc # "none"
            THEN [m |-> [m1 EXCEPT !.exc = r.exc], sol |-> sol, ret |-> UNSOLVED]
          ELSE IF ~r.ret
            THEN [m |-> [m1 EXCEPT !.q = clear(@)], sol |-> sol, ret |-> CONFLICT]
          ELSE Applied(ApplyChange(i, 0, BitXor(current_string, r.settle), sol, m1))
    IN Missed(RunDp(prob[i], current_string))

\* line_solver(prob, sol): ret is the returned state (meaningless if m.exc is
\* an exception).
RECURSIVE line_solver(_, _, _)
line_solver(prob, sol, m) ==
  IF is_empty(m.q)
    THEN [m |-> m, sol |-> sol,
          ret |-> IF sol.num_of_square_on_board = S_SIZE THEN SOLVED ELSE UNSOLVED]
  ELSE
    LET i == front(m.q)
        m1 == [m EXCEPT !.q = pop_and_front(@),
                        !.db.this_temp_table = @ \cup {i}]
        current_string == IF i < P_SIZE THEN m.heap[sol.col_string][i]
                          ELSE m.heap[sol.row_string][i - P_SIZE]
        \* lines 148-171: the settled word is applied and the loop goes on
        Applied(a) == line_solver(prob, a.sol, a.m)
        Settled(settle, m2) ==
          Applied(ApplyChange(i, 0, BitXor(current_string, settle), sol, m2))
        \* lines 129-146: the cache had no entry and the DP ran
        Missed(r) ==
          IF r.exc # "none"
            THEN [m |-> [m1 EXCEPT !.exc = r.exc], sol |-> sol, ret |-> UNSOLVED]
          ELSE IF ~r.ret
            THEN [m |-> [m1 EXCEPT !.q = clear(@)], sol |-> sol, ret |-> CONFLICT]
          ELSE Settled(r.settle,
                       [m1 EXCEPT !.cache = insert_hash(@, prob[i], current_string, r.settle)])
        Looked(hit) ==
          IF hit.found THEN Settled(hit.settle, m1)
          ELSE Missed(RunDp(prob[i], current_string))
    IN Looked(IF m.nocache THEN [found |-> FALSE, settle |-> 0]
              ELSE find_hash(m.cache, prob[i], current_string))

\* --------------------------------------------------------- search_solver.py
\* The result of one probe: the engine state, correct_board, the two trial
\* boards handed in, and the returned state.
ProbeOut(m, cb, gb, gw, ret) ==
  [m |-> m, cb |-> cb, gb |-> gb, gw |-> gw, ret |-> ret]

\* Lines 92-107: the merge loop from index i on.  cb, gb, gw are boards; the
\* words are read from and written to the heap, so lists that two of the
\* boards share are seen changed by both.
RECURSIVE MergeLoop(_, _, _, _, _, _)
MergeLoop(i, cb, gb, gw, m, is_update) ==
  IF i >= P_SIZE THEN [cb |-> cb, m |-> m, is_update |-> is_update]
  ELSE
    LET one_row == BitOr(m.heap[gb.row_string][i], m.heap[gw.row_string][i])
        rowDiff == one_row # m.heap[cb.row_string][i]
        cb1 == IF rowDiff
                 THEN [cb EXCEPT !.num_of_square_on_board =
                         @ + count64(BitXor(m.heap[cb.row_string][i], one_row))]
               ELSE cb
        m1 == IF rowDiff
                THEN [m EXCEPT !.heap[cb.row_string][i] = BitAnd(@, one_row),
                               !.q = push_q(@, i + P_SIZE)]
              ELSE m
        one_col == BitOr(m1.heap[gb.col_string][i], m1.heap[gw.col_string][i])
        colDiff == one_col # m1.heap[cb.col_string][i]
        m2 == IF colDiff
                THEN [m1 EXCEPT !.heap[cb.col_string][i] = BitAnd(@, one_col),
                                !.q = push_q(@, i)]
              ELSE m1
    IN MergeLoop(i + 1, cb1, gb, gw, m2, is_update \/ rowDiff \/ colDiff)

\* Lines 87-117: both trials UNSOLVED.  black is correct_board as the black
\* trial left it.
ProbeMerge(problem, black, resume_board, if_guess_black, gw, m) ==
  LET gb == DictUpdate(if_guess_black, black)
      cb == DictUpdate(black, resume_board)
      \* lines 110-117: the driver ran on the merged board
      Propagated(r) ==
        LET m1 == [r.m EXCEPT !.db.temp_update_table = @ \cup r.m.db.this_temp_table]
        IN IF r.m.exc # "none" THEN ProbeOut(r.m, r.sol, gb, gw, UNSOLVED)
           ELSE IF r.ret = SOLVED THEN ProbeOut(m1, r.sol, gb, gw, SOLVED)
           ELSE IF r.ret = CONFLICT THEN ProbeOut(m1, r.sol, gb, gw, CONFLICT)
           ELSE ProbeOut(m1, r.sol, gb, gw, UNSOLVED)
      Merged(g) ==
        IF ~g.is_update THEN ProbeOut(g.m, g.cb, gb, gw, UNSOLVED)
        ELSE Propagated(line_solver(problem, g.cb, [g.m EXCEPT !.db.this_temp_table = {}]))
  IN Merged(MergeLoop(0, cb, gb, gw, m, FALSE))

\* Lines 58-69: the first trial was a CONFLICT.
ProbeWhiteConflict(problem, white, resume_board, gb, gw, x, y, m) ==
  LET s == set_and_flag(x, y, DictUpdate(white, resume_board), SQUARE_BLOCK, m)
      Propagated(r) ==
        LET m1 == [r.m EXCEPT !.db.temp_update_table = @ \cup r.m.db.this_temp_table]
        IN IF r.m.exc # "none" THEN ProbeOut(r.m, r.sol, gb, gw, UNSOLVED)
           ELSE IF r.ret = SOLVED THEN ProbeOut(m1, r.sol, gb, gw, SOLVED)
           ELSE IF r.ret = CONFLICT THEN ProbeOut(m1, r.sol, gb, gw, CONFLICT)
           ELSE ProbeOut(m1, r.sol, gb, gw, UNSOLVED)
  IN Propagated(line_solver(problem, s.sol, [s.m EXCEPT !.db.this_temp_table = {}]))

\* Lines 70-117: the first trial was UNSOLVED.
ProbeWhiteUnsolved(problem, white, resume_board, gb, if_guess_white, x, y, m, space_table) ==
  LET gw == DictUpdate(if_guess_white, white)
      s == set_and_flag(x, y, DictUpdate(white, resume_board), SQUARE_BLOCK, m)
      Propagated(r) ==
        LET m1 == [r.m EXCEPT !.db.this_update_table = @ \cup r.m.db.this_temp_table]
        IN IF r.m.exc # "none" THEN ProbeOut(r.m, r.sol, gb, gw, UNSOLVED)
           ELSE IF r.ret = SOLVED THEN ProbeOut(m1, r.sol, gb, gw, SOLVED)
           ELSE IF r.ret = CONFLICT
             THEN ProbeOut([m1 EXCEPT !.db.temp_update_table = @ \cup space_table],
                           DictUpdate(r.sol, gw), gb, gw, UNSOLVED)
           ELSE ProbeMerge(problem, r.sol, resume_board, gb, gw, m1)
  IN Propagated(line_solver(problem, s.sol, [s.m EXCEPT !.db.this_temp_table = {}]))

\* solve_one_two_sat(problem, correct_board, if_guess_black, if_guess_white, x, y)
solve_one_two_sat(problem, correct_board, if_guess_black, if_guess_white, x, y, m) ==
  LET d == deepcopy(correct_board, m.heap)
      resume_board == d.board
      s == set_and_flag(x, y, correct_board, SQUARE_SPACE, [m EXCEPT !.heap = d.heap])
      \* lines 53-70: the driver ran on the white trial
      Propagated(r) ==
        LET space_table == r.m.db.this_temp_table
            m1 == [r.m EXCEPT !.db.this_update_table = @ \cup space_table]
        IN IF r.m.exc # "none"
             THEN ProbeOut(r.m, r.sol, if_guess_black, if_guess_white, UNSOLVED)
           ELSE IF r.ret = SOLVED
             THEN ProbeOut(m1, r.sol, if_guess_black, if_guess_white, SOLVED)
           ELSE IF r.ret = CONFLICT
             THEN ProbeWhiteConflict(problem, r.sol, resume_board,
                                     if_guess_black, if_guess_white, x, y, m1)
           ELSE ProbeWhiteUnsolved(problem, r.sol, resume_board,
                                   if_guess_black, if_guess_white, x, y, m1, space_table)
  IN Propagated(line_solver(problem, s.sol, [s.m EXCEPT !.db.this_temp_table = {}]))

\* 1850000 * ln(n) for n = 1 .. 65, rounded: the term 1.85 * math.log(1.0 + d)
\* of the branching score in millionths.  Scores of different (min, d) pairs
\* differ by more than the rounding, so the order of the floats is kept.
LnTable ==
  << 0, 1282322, 2032433, 2564645, 2977460, 3314755, 3599934, 3846967,
     4064865, 4259782, 4436106, 4597077, 4745156, 4882256, 5009893, 5129289,
     5241445, 5347188, 5447212, 5542105, 5632367, 5718429, 5800664, 5879400,
     5954920, 6027479, 6097298, 6164578, 6229497, 6292215, 6352876, 6411611,
     6468539, 6523767, 6577394, 6629510, 6680198, 6729534, 6777589, 6824427,
     6870108, 6914689, 6958220, 7000751, 7042326, 7082987, 7122773, 7161722,
     7199868, 7237243, 7273877, 7309801, 7345040, 7379620, 7413566, 7446901,
     7479645, 7511820, 7543444, 7574537, 7605117, 7635199, 7664799, 7693934,
     7722616 >>

\* Beyond the table ln(n) is taken as ln(n div 2) + ln(2).
RECURSIVE LnMicro(_)
LnMicro(n) == IF n <= 65 THEN LnTable[n] ELSE LnMicro(n \div 2) + 1282322

Min(a, b) == IF a < b THEN a ELSE b
Abs(a) == IF a < 0 THEN 0 - a ELSE a

\* min(b, w) + 1.85 * math.log(1.0 + abs(b - w)), in millionths.
Score(b, w) == Min(b, w) * 1000000 + LnMicro(1 + Abs(b - w))

\* Lines 164-178: the cell of the best score from cell index idx on (cells in
\* the order of the two loops, i outer and j inner); a later cell replaces the
\* choice only with a strictly greater score.
RECURSIVE ChooseCell(_, _, _, _, _, _, _, _)
ChooseCell(idx, x, y, max_score, correct_board, gbs, gws, h) ==
  IF idx >= S_SIZE THEN <<x, y>>
  ELSE
    LET i == idx \div P_SIZE
        j == idx % P_SIZE
        score == Score(gbs[i][j].num_of_square_on_board, gws[i][j].num_of_square_on_board)
    IN IF get_square(i, j, correct_board, h) = SQUARE_UNKNOWN /\ score > max_score
         THEN ChooseCell(idx + 1, i, j, score, correct_board, gbs, gws, h)
       ELSE ChooseCell(idx + 1, x, y, max_score, correct_board, gbs, gws, h)

\* A sweep that lets no cell through the filter of lines 143-145.
SweepNothing(idx, pz, cb, m) == [m |-> m, cb |-> cb, done |-> FALSE, ret |-> UNSOLVED]

\* Lines 141-158: one sweep of the Prober from cell index idx on.  done: the
\* sweep ended two_sat_solver (SOLVED, CONFLICT or an exception).
RECURSIVE Sweep(_, _, _, _)
Sweep(idx, problem, cb, m) ==
  IF idx >= S_SIZE THEN [m |-> m, cb |-> cb, done |-> FALSE, ret |-> UNSOLVED]
  ELSE
    LET i == idx \div P_SIZE
        j == idx % P_SIZE
        \* lines 153-158: the probe of cell (i, j) returned
        Probed(r) ==
          LET m1 == [r.m EXCEPT !.sb[i][j] = r.gb, !.sw[i][j] = r.gw]
          IN IF r.m.exc # "none" \/ r.ret = SOLVED \/ r.ret = CONFLICT
               THEN [m |-> m1, cb |-> r.cb, done |-> TRUE, ret |-> r.ret]
             ELSE Sweep(idx + 1, problem, r.cb,
                        [m1 EXCEPT !.db.point_tables[i][j] = m1.db.this_update_table])
    IN IF get_square(i, j, cb, m.heap) = SQUARE_UNKNOWN
          /\ (m.db.update_table \cap m.db.point_tables[i][j] # {} \/ m.db.update_table = {})
         THEN Probed(solve_one_two_sat(problem, cb, m.sb[i][j], m.sw[i][j], i, j,
                                       [m EXCEPT !.db.this_update_table = {}]))
       ELSE Sweep(idx + 1, problem, cb, m)

\* Lines 137-183: the sweeps of two_sat_solver.  wcig is the SquareToGo
\* object handed in.
RECURSIVE TwoSatLoop(_, _, _, _)
TwoSatLoop(problem, cb, wcig, m) ==
  LET d == deepcopy(cb, m.heap)
      \* lines 164-183: the 2-SAT stalled, the branching cell c is chosen
      Chosen(c, s, m1) ==
        LET f == deepcopy(m1.sw[c[1]][c[2]], m1.heap)
            g == deepcopy(m1.sb[c[1]][c[2]], f.heap)
        IN [m |-> [m1 EXCEPT !.heap = g.heap], cb |-> s.cb,
            wcig |-> [first_go |-> f.board, second_go |-> g.board],
            ret |-> UNSOLVED]
      \* lines 160-162: a sweep ended
      Swept(s) ==
        LET m1 == [s.m EXCEPT !.db.update_table = @ \cup s.m.db.temp_update_table]
        IN IF s.done THEN [m |-> s.m, cb |-> s.cb, wcig |-> wcig, ret |-> s.ret]
           ELSE IF m1.db.temp_update_table = {}
             THEN Chosen(ChooseCell(0, 0, 0, -1000000, s.cb, m1.sb, m1.sw, m1.heap), s, m1)
           ELSE TwoSatLoop(problem, s.cb, wcig, m1)
  IN Swept(Sweep(0, problem, cb, [m EXCEPT !.db.temp_update_table = {}, !.heap = d.heap]))

two_sat_solver(problem, correct_board, where_can_i_go, m) ==
  TwoSatLoop(problem, correct_board, where_can_i_go, [m EXCEPT !.db.update_table = {}])

\* SquareToGo(): two new Boards.
SquareToGo(h) ==
  LET f == Board(h)
      g == Board(f.heap)
  IN [heap |-> g.heap, wcig |-> [first_go |-> f.board, second_go |-> g.board]]

\* Python ends a recursion deeper than its recursion limit with a
\* RecursionError; frames counts the frames of the search in progress.
RECURSIVE search_solver_dfs(_, _, _, _, _)
search_solver_dfs(problem, solution, node_count, m, frames) ==
  IF frames > RecursionLimit
    THEN [m |-> [m EXCEPT !.exc = "RecursionError"], sol |-> solution,
          node_count |-> node_count, ret |-> UNSOLVED]
  ELSE
    LET w == SquareToGo(m.heap)
        \* lines 214-219: the first branch returned
        First(a, t) ==
          IF a.m.exc # "none" \/ a.ret = SOLVED THEN a
          ELSE search_solver_dfs(problem, DictUpdate(a.sol, t.wcig.second_go),
                                 a.node_count, a.m, frames + 1)
        \* lines 205-212: the Prober returned
        Probed(t) ==
          IF t.m.exc # "none" \/ t.ret = SOLVED \/ t.ret = CONFLICT
            THEN [m |-> t.m, sol |-> t.cb, node_count |-> node_count + 1, ret |-> t.ret]
          ELSE First(search_solver_dfs(problem, DictUpdate(t.cb, t.wcig.first_go),
                                       node_count + 1, t.m, frames + 1), t)
    IN Probed(two_sat_solver(problem, solution, w.wcig, [m EXCEPT !.heap = w.heap]))

\* A search_one_solution that goes on to the DFS when the driver returns
\* SOLVED (lines 241-242 left out).
search_one_skip_solved(problem, solution, node_count, m) ==
  LET m0 == [m EXCEPT !.db.point_tables = [i \in Cells |-> [j \in Cells |-> {}]]]
      Propagated(r) ==
        IF r.m.exc # "none" \/ r.ret = CONFLICT
          THEN [m |-> r.m, sol |-> r.sol, node_count |-> node_count, ret |-> r.ret]
        ELSE search_solver_dfs(problem, r.sol, node_count, r.m, 1)
  IN Propagated(line_solver(problem, solution, m0))

search_one_solution(problem, solution, node_count, m) ==
  LET m0 == [m EXCEPT !.db.point_tables = [i \in Cells |-> [j \in Cells |-> {}]]]
      \* lines 241-246: the driver returned
      Propagated(r) ==
        IF r.m.exc # "none" \/ r.ret = SOLVED \/ r.ret = CONFLICT
          THEN [m |-> r.m, sol |-> r.sol, node_count |-> node_count, ret |-> r.ret]
        ELSE search_solver_dfs(problem, r.sol, node_count, r.m, 1)
  IN Propagated(line_solver(problem, solution, m0))

\* --------------------------------------------------------- search_verify.py
VerifyOut(m, cb, os, found, gb, gw, ret) ==
  [m |-> m, cb |-> cb, os |-> os, found |-> found, gb |-> gb, gw |-> gw, ret |-> ret]

\* Lines 78-101: both trials UNSOLVED; the merge loop is the one of
\* solve_one_two_sat, word for word.
VerifyMerge(problem, cb, os, found, gb, gw, m) ==
  LET Propagated(r) ==
        VerifyOut(r.m, r.sol, os, found, gb, gw,
                  IF r.ret = SOLVED THEN SOLVED
                  ELSE IF r.ret = CONFLICT THEN CONFLICT ELSE UNSOLVED)
      Merged(g) ==
        IF ~g.is_update THEN VerifyOut(g.m, g.cb, os, found, gb, gw, UNSOLVED)
        ELSE Propagated(line_solver(problem, g.cb, g.m))
  IN Merged(MergeLoop(0, cb, gb, gw, m, FALSE))

\* Lines 103-128: exactly one trial SOLVED.
VerifyOneSolved(state1, state2, cb, os, found, gb, gw, m) ==
  IF state1 = CONFLICT THEN VerifyOut(m, DictUpdate(cb, gb), os, found, gb, gw, SOLVED)
  ELSE IF state2 = CONFLICT THEN VerifyOut(m, DictUpdate(cb, gw), os, found, gb, gw, SOLVED)
  ELSE
    LET resume_board == IF state1 = SOLVED THEN gw ELSE gb
    IN IF ~found THEN VerifyOut(m, cb, DictUpdate(os, resume_board), TRUE, gb, gw, UNSOLVED)
       ELSE IF m.heap[resume_board.row_string] # m.heap[os.row_string]
         THEN VerifyOut(m, DictUpdate(cb, resume_board), os, found, gb, gw, MANY_SOLUTION)
       ELSE VerifyOut(m, cb, os, found, gb, gw, UNSOLVED)

solve_one_two_sat_verify(problem, correct_board, one_solution, found, if_guess_black, if_guess_white, x, y, m) ==
  LET d == deepcopy(correct_board, m.heap)
      resume_board == d.board
      s1 == set_and_flag(x, y, correct_board, SQUARE_SPACE, [m EXCEPT !.heap = d.heap])
      \* lines 60-130: the driver ran on the black trial
      Black(r1, r2) ==
        LET gw == DictUpdate(if_guess_white, r1.sol)
            gb == DictUpdate(if_guess_black, r2.sol)
            cb == DictUpdate(r2.sol, resume_board)
        IN IF r2.m.exc # "none"
             THEN VerifyOut(r2.m, r2.sol, one_solution, found, if_guess_black, gw, UNSOLVED)
           ELSE IF r1.ret = SOLVED /\ r2.ret = SOLVED
             THEN VerifyOut(r2.m, DictUpdate(cb, gw), DictUpdate(one_solution, gb), found,
                            gb, gw, MANY_SOLUTION)
           ELSE IF r1.ret # SOLVED /\ r2.ret # SOLVED
             THEN IF r1.ret = CONFLICT /\ r2.ret = CONFLICT
                    THEN VerifyOut(r2.m, cb, one_solution, found, gb, gw, CONFLICT)
                  ELSE IF r1.ret = CONFLICT
                    THEN VerifyOut(r2.m, DictUpdate(cb, gb), one_solution, found, gb, gw,
                                   UNSOLVED)
                  ELSE IF r2.ret = CONFLICT
                    THEN VerifyOut(r2.m, DictUpdate(cb, gw), one_solution, found, gb, gw,
                                   UNSOLVED)
                  ELSE VerifyMerge(problem, cb, one_solution, found, gb, gw, r2.m)
           ELSE VerifyOneSolved(r1.ret, r2.ret, cb, one_solution, found, gb, gw, r2.m)
      \* lines 53-59: the driver ran on the white trial
      White(r1) ==
        IF r1.m.exc # "none"
          THEN VerifyOut(r1.m, r1.sol, one_solution, found, if_guess_black, if_guess_white,
                         UNSOLVED)
        ELSE
          LET s2 == set_and_flag(x, y, DictUpdate(r1.sol, resume_board), SQUARE_BLOCK, r1.m)
          IN Black(r1, line_solver(problem, s2.sol, s2.m))
  IN White(line_solver(problem, s1.sol, s1.m))

\* Lines 173-182 and 150-160: a SOLVED board is the first solution, or is
\* compared with it.
VerifySolved(m, cb, os, found) ==
  IF ~found THEN [m |-> m, cb |-> cb, os |-> DictUpdate(os, cb), found |-> TRUE, ret |-> SOLVED]
  ELSE [m |-> m, cb |-> cb, os |-> os, found |-> found,
        ret |-> IF m.heap[cb.row_string] # m.heap[os.row_string]
                  THEN MANY_SOLUTION ELSE SOLVED]

\* Lines 165-186: one sweep from cell index idx on.
RECURSIVE VerifySweep(_, _, _, _, _, _)
VerifySweep(idx, problem, cb, os, found, m) ==
  IF idx >= S_SIZE
    THEN [m |-> m, cb |-> cb, os |-> os, found |-> found, done |-> FALSE, ret |-> UNSOLVED]
  ELSE
    LET i == idx \div P_SIZE
        j == idx % P_SIZE
        \* lines 173-186: the probe of cell (i, j) returned
        Probed(r) ==
          LET m1 == [r.m EXCEPT !.vb[i][j] = r.gb, !.vw[i][j] = r.gw]
          IN IF r.m.exc # "none" \/ r.ret = CONFLICT \/ r.ret = MANY_SOLUTION
               THEN [m |-> m1, cb |-> r.cb, os |-> r.os, found |-> r.found,
                     done |-> TRUE, ret |-> r.ret]
             ELSE IF r.ret = SOLVED
               THEN [done |-> TRUE] @@ VerifySolved(m1, r.cb, r.os, r.found)
             ELSE VerifySweep(idx + 1, problem, r.cb, r.os, r.found, m1)
    IN IF get_square(i, j, cb, m.heap) = SQUARE_UNKNOWN
         THEN Probed(solve_one_two_sat_verify(problem, cb, os, found,
                                              m.vb[i][j], m.vw[i][j], i, j, m))
       ELSE VerifySweep(idx + 1, problem, cb, os, found, m)

\* Lines 162-210: the sweeps of two_sat_solver_verify.
RECURSIVE VerifyLoop(_, _, _, _, _, _)
VerifyLoop(problem, cb, os, found, wcig, m) ==
  LET d == deepcopy(cb, m.heap)
      \* lines 190-210: the board did not change, the branching cell c is chosen
      Chosen(c, s) ==
        LET f == deepcopy(s.m.vw[c[1]][c[2]], s.m.heap)
            g == deepcopy(s.m.vb[c[1]][c[2]], f.heap)
        IN [m |-> [s.m EXCEPT !.heap = g.heap], cb |-> s.cb, os |-> s.os,
            found |-> s.found,
            wcig |-> [first_go |-> f.board, second_go |-> g.board], ret |-> UNSOLVED]
      \* lines 188-189: a sweep ended
      Swept(s) ==
        IF s.done
          THEN [m |-> s.m, cb |-> s.cb, os |-> s.os, found |-> s.found, wcig |-> wcig,
                ret |-> s.ret]
        ELSE IF s.m.heap[d.board.row_string] = s.m.heap[s.cb.row_string]
          THEN Chosen(ChooseCell(0, 0, 0, -1000000, s.cb, s.m.vb, s.m.vw, s.m.heap), s)
        ELSE VerifyLoop(problem, s.cb, s.os, s.found, wcig, s.m)
  IN Swept(VerifySweep(0, problem, cb, os, found, [m EXCEPT !.heap = d.heap]))

two_sat_solver_verify(problem, correct_board, one_solution, found, where_can_i_go, m) ==
  IF correct_board.num_of_square_on_board = S_SIZE
    THEN [wcig |-> where_can_i_go] @@ VerifySolved(m, correct_board, one_solution, found)
  ELSE VerifyLoop(problem, correct_board, one_solution, found, where_can_i_go, m)

RECURSIVE verified_many_solution(_, _, _, _, _, _, _)
verified_many_solution(found, problem, solution, one_solution, node_count, m, frames) ==
  IF frames > RecursionLimit
    THEN [m |-> [m EXCEPT !.exc = "RecursionError"], sol |-> solution, os |-> one_solution,
          found |-> found, node_count |-> node_count, ret |-> UNSOLVED]
  ELSE
    LET w == SquareToGo(m.heap)
        \* lines 257-265: the second branch returned
        Second(a, b) ==
          IF b.m.exc # "none" \/ b.ret = MANY_SOLUTION THEN b
          ELSE [b EXCEPT !.ret = IF a.ret = CONFLICT /\ b.ret = CONFLICT THEN CONFLICT
                                 ELSE IF a.ret = SOLVED /\ b.ret = SOLVED
                                   THEN MANY_SOLUTION
                                 ELSE SOLVED]
        \* lines 249-254: the first branch returned
        First(a, t) ==
          IF a.m.exc # "none" \/ a.ret = MANY_SOLUTION THEN a
          ELSE Second(a, verified_many_solution(a.found, problem,
                                                DictUpdate(a.sol, t.wcig.second_go),
                                                a.os, a.node_count, a.m, frames + 1))
        \* lines 237-246: the Prober returned
        Probed(t) ==
          IF t.m.exc # "none" \/ t.ret = SOLVED \/ t.ret = CONFLICT \/ t.ret = MANY_SOLUTION
            THEN [m |-> t.m, sol |-> t.cb, os |-> t.os, found |-> t.found,
                  node_count |-> node_count + 1, ret |-> t.ret]
          ELSE First(verified_many_solution(t.found, problem,
                                            DictUpdate(t.cb, t.wcig.first_go),
                                            t.os, node_count + 1, t.m, frames + 1), t)
    IN Probed(two_sat_solver_verify(problem, solution, one_solution, found, w.wcig,
                                    [m EXCEPT !.heap = w.heap]))

search_two_solutions(found, problem, solution, one_solution, node_count, m) ==
  LET Propagated(r) ==
        IF r.m.exc # "none" \/ r.ret = SOLVED \/ r.ret = CONFLICT
          THEN [m |-> r.m, sol |-> r.sol, os |-> one_solution, found |-> found,
                node_count |-> node_count, ret |-> r.ret]
        ELSE verified_many_solution(found, problem, r.sol, one_solution, node_count, r.m, 1)
  IN Propagated(line_solver(problem, solution, m))

\* ------------------------------------------------------ search_scheduling.py
\* A list of STACK_MAX_DEPTH entries is indexed the way Python indexes it: a
\* negative index counts from the end, an index outside the list raises.
ValidIndex(k) == k >= -STACK_MAX_DEPTH /\ k < STACK_MAX_DEPTH
PyIndex(k) == IF k < 0 THEN k + STACK_MAX_DEPTH ELSE k
Depths == 0 .. STACK_MAX_DEPTH - 1

\* SearchStack(): the solution Board and STACK_MAX_DEPTH SquareToGo objects.
RECURSIVE NewBranches(_, _)
NewBranches(h, n) ==
  IF n = 0 THEN [heap |-> h, list |-> <<>>]
  ELSE LET r == NewBranches(h, n - 1)
           w == SquareToGo(r.heap)
       IN [heap |-> w.heap, list |-> Append(r.list, w.wcig)]

SearchStack(h) ==
  LET b == Board(h)
      w == NewBranches(b.heap, STACK_MAX_DEPTH)
  IN [ heap  |-> w.heap,
       stack |-> [ step |-> [d \in Depths |-> 0], state |-> UNSOLVED, depth |-> 0,
                   node_limit |-> 0, node_count |-> 0, solution |-> b.board,
                   where_can_i_go |-> [d \in Depths |-> w.list[d + 1]] ] ]

\* SearchStack.initial
stack_initial(st, m) ==
  LET b == init_board(st.solution, m)
  IN [ m |-> b.m,
       stack |-> [st EXCEPT !.step = [d \in Depths |-> 0], !.solution = b.sol,
                            !.depth = 0, !.node_count = 0, !.state = UNSOLVED] ]

\* SearchStack.save: the file holds the stack and the contents of the lists
\* its boards refer to.
StackRefs(st) ==
  {st.solution.col_string, st.solution.row_string}
    \cup UNION {{st.where_can_i_go[d].first_go.col_string,
                 st.where_can_i_go[d].first_go.row_string,
                 st.where_can_i_go[d].second_go.col_string,
                 st.where_can_i_go[d].second_go.row_string} : d \in Depths}

stack_save(st, h) == <<[stack |-> st, lists |-> [r \in StackRefs(st) |-> h[r]]]>>

\* SearchStack.load: the loaded stack refers to new lists with the saved
\* contents; boards that shared a list when saved share one after the load.
RECURSIVE LoadLists(_, _, _)
LoadLists(h, file, rest) ==
  IF rest = {} THEN [heap |-> h, at |-> <<>>]
  ELSE LET r == CHOOSE x \in rest : \A y \in rest : x <= y
           t == LoadLists(h \o <<file.lists[r]>>, file, rest \ {r})
       IN [heap |-> t.heap, at |-> (r :> Len(h) + 1) @@ t.at]

LoadBoard(b, at) ==
  [b EXCEPT !.col_string = at[@], !.row_string = at[@]]

stack_load(file, h) ==
  LET l == LoadLists(h, file, DOMAIN file.lists)
      st == file.stack
  IN [ heap  |-> l.heap,
       stack |-> [st EXCEPT
                    !.solution = LoadBoard(@, l.at),
                    !.where_can_i_go =
                       [d \in Depths |->
                          [first_go  |-> LoadBoard(st.where_can_i_go[d].first_go, l.at),
                           second_go |-> LoadBoard(st.where_can_i_go[d].second_go, l.at)]]] ]

\* Step 0 without the budget check of lines 103-105.
DfsProbeUnlimited(problem, st, k, m) ==
  LET Probed(t) ==
        LET s1 == [st EXCEPT !.state = t.ret, !.solution = t.cb, !.where_can_i_go[k] = t.wcig,
                             !.node_limit = @ - 1, !.node_count = @ + 1]
            s2 == IF t.ret = CONFLICT
                    THEN [s1 EXCEPT !.step[k] = 0, !.depth = @ - 1]
                    ELSE [s1 EXCEPT !.solution = DictUpdate(@, t.wcig.first_go),
                                    !.step[k] = 1, !.depth = @ + 1]
        IN IF t.m.exc # "none"
             THEN [m |-> t.m, stack |-> [st EXCEPT !.solution = t.cb], saved |-> FALSE,
                   ret |-> UNSOLVED]
           ELSE IF t.ret = SOLVED
             THEN [m |-> t.m, stack |-> s1, saved |-> FALSE, ret |-> SOLVED]
           ELSE [m |-> t.m, stack |-> s2, saved |-> FALSE,
                 ret |-> IF s2.depth < 0 THEN CONFLICT ELSE UNSOLVED]
  IN Probed(two_sat_solver(problem, st.solution, st.where_can_i_go[k], m))

\* resumable_dfs, lines 84-105: step 0, the Prober runs at this depth.
DfsProbe(problem, st, k, m) ==
  LET Probed(t) ==
        LET s1 == [st EXCEPT !.state = t.ret, !.solution = t.cb, !.where_can_i_go[k] = t.wcig,
                             !.node_limit = @ - 1, !.node_count = @ + 1]
            s2 == IF t.ret = CONFLICT
                    THEN [s1 EXCEPT !.step[k] = 0, !.depth = @ - 1]
                    ELSE [s1 EXCEPT !.solution = DictUpdate(@, t.wcig.first_go),
                                    !.step[k] = 1, !.depth = @ + 1]
        IN IF t.m.exc # "none"
             THEN [m |-> t.m, stack |-> [st EXCEPT !.solution = t.cb], saved |-> FALSE,
                   ret |-> UNSOLVED]
           ELSE IF t.ret = SOLVED
             THEN [m |-> t.m, stack |-> s1, saved |-> FALSE, ret |-> SOLVED]
           ELSE IF s2.node_limit < 0
             THEN [m |-> t.m, stack |-> s2, saved |-> TRUE, ret |-> TIMEOUT]
           ELSE [m |-> t.m, stack |-> s2, saved |-> FALSE,
                 ret |-> IF s2.depth < 0 THEN CONFLICT ELSE UNSOLVED]
  IN Probed(two_sat_solver(problem, st.solution, st.where_can_i_go[k], m))

\* resumable_dfs(filename, problem, stack): one step.  saved tells that the
\* step wrote the stack to the file.
resumable_dfs(problem, st, m) ==
  IF ~ValidIndex(st.depth)
    THEN [m |-> [m EXCEPT !.exc = "IndexError"], stack |-> st, saved |-> FALSE,
          ret |-> UNSOLVED]
  ELSE
    LET k == PyIndex(st.depth)
        step == st.step[k]
        s == IF step = 1
               THEN [st EXCEPT !.solution = DictUpdate(@, st.where_can_i_go[k].second_go),
                               !.step[k] = 2, !.depth = @ + 1]
             ELSE IF step = 2 THEN [st EXCEPT !.step[k] = 0, !.depth = @ - 1]
             ELSE [st EXCEPT !.depth = @ - 1]
    IN IF step = 0 THEN DfsProbe(problem, st, k, m)
       ELSE [m |-> m, stack |-> s, saved |-> FALSE,
             ret |-> IF s.depth < 0 THEN CONFLICT ELSE UNSOLVED]

\* resumable_solver, lines 144-152: load the file, or start from the board
\* after initial() and one propagation.  ret is SOLVED if the call returns
\* there, UNSOLVED if it goes on to the steps.
resumable_enter(file, problem, node_limit, st, m) ==
  LET Loaded(l) ==
        [m |-> [m EXCEPT !.heap = l.heap],
         stack |-> [l.stack EXCEPT !.node_limit = node_limit], ret |-> UNSOLVED]
      \* lines 148-152: the driver ran on the board of the fresh stack i
      Propagated(r, i) ==
        LET s == [i.stack EXCEPT !.solution = r.sol]
        IN IF r.m.exc # "none" \/ r.ret = SOLVED
             THEN [m |-> r.m, stack |-> s, ret |-> r.ret]
           ELSE [m |-> r.m, stack |-> [s EXCEPT !.node_limit = node_limit], ret |-> UNSOLVED]
      Fresh(i) == Propagated(line_solver(problem, i.stack.solution, i.m), i)
  IN IF file # <<>> THEN Loaded(stack_load(file[1], m.heap))
     ELSE Fresh(stack_initial(st, m))

\* resumable_solver, lines 155-159: the steps until one does not return
\* UNSOLVED.  file is the checkpoint file after the call.
RECURSIVE resumable_steps(_, _, _, _)
resumable_steps(file, problem, st, m) ==
  LET Stepped(r) ==
        LET f == IF r.saved THEN stack_save(r.stack, r.m.heap) ELSE file
        IN IF r.m.exc # "none" \/ r.ret # UNSOLVED
             THEN [m |-> r.m, stack |-> r.stack, file |-> f, ret |-> r.ret]
           ELSE resumable_steps(f, problem, r.stack, r.m)
  IN Stepped(resumable_dfs(problem, st, m))

resumable_solver(file, problem, node_limit, st, m) ==
  LET Entered(e) ==
        IF e.m.exc # "none" \/ e.ret = SOLVED
          THEN [m |-> e.m, stack |-> e.stack, file |-> file, ret |-> e.ret]
        ELSE resumable_steps(file, problem, e.stack, e.m)
  IN Entered(resumable_enter(file, problem, node_limit, st, m))

\* ------------------------------------------------------------------ state
VARIABLES
  lclue,      \* line harness: the LineNumbers object handed to the DP
  lword,      \* line harness: the line word handed to the DP
  lres,       \* line harness: what the DP run left (DpStart before the run)
  lpc,        \* line harness: "idle", "ready" or "done"
  qh,         \* queue harness: what a FIFO without duplicates holds and returns
  problem,    \* the Puzzle: m_lines, a LineNumbers object per line
  heap,       \* the list objects of all boards
  myQ,        \* NodeQueue.myQ
  db_table,   \* dependency.db_table
  line_cache, \* the process-wide line cache
  if_guess_black_board,  \* search_solver.if_guess_black_board
  if_guess_white_board,  \* search_solver.if_guess_white_board
  verify_black_board,    \* search_verify.if_guess_black_board
  verify_white_board,    \* search_verify.if_guess_white_board
  solution,   \* the caller's board
  one_solution,       \* the caller's second board (search_two_solutions)
  is_find_solution,   \* is_find_solution[0]
  node_count, \* node_count[0]
  stack,      \* the SearchStack object
  checkpoint, \* the checkpoint file: <<>> if there is none, else <<content>>
  pc,         \* where the caller is
  call,       \* the function the caller called last
  result,     \* the state it returned (-1: none)
  raised,     \* the exception that ended it ("none" if none)
  todo,       \* the set_and_flag calls <<i, j, to_set>> the caller will still make
  probed,     \* the indexes of the cells the caller probed, in order
  puzzles     \* the number of puzzles handed to the process so far

lineVars == <<lclue, lword, lres, lpc, qh>>
engineVars == <<heap, myQ, db_table, line_cache, if_guess_black_board,
                if_guess_white_board, verify_black_board, verify_white_board>>
callerVars == <<problem, solution, one_solution, is_find_solution, node_count,
                stack, checkpoint, pc, call, result, raised, todo, probed, puzzles>>
vars == <<lineVars, engineVars, callerVars>>

\* ------------------------------------------------------------ clue inputs
\* The tokens read_buffer is given for one line: the single number 0 that the
\* parsers write for a line without runs, or 1 .. MaxCount numbers above zero
\* (P_SIZE + 1 is a run longer than the line).
RECURSIVE SeqsOver(_, _)
SeqsOver(S, n) ==
  IF n = 0 THEN {<<>>}
  ELSE {Append(t, x) : t \in SeqsOver(S, n - 1), x \in S}

Tokens == {<<0>>} \cup UNION {SeqsOver(1 .. P_SIZE + 1, n) : n \in 1 .. MaxCount}

ClueSet == {LineNumbers} \cup {ParsedLine(t) : t \in Tokens}

\* The clue of most runs that fits in the line: (P_SIZE + 1) div 2 runs of
\* one cell.
MostRuns == {ParsedLine(t) : t \in SeqsOver({1}, DpCols)}

\* Line words whose cells are all BLACK, WHITE or UNKNOWN.
RECURSIVE WordsOfLen(_)
WordsOfLen(n) ==
  IF n = 0 THEN {0}
  ELSE {4 * w + c : w \in WordsOfLen(n - 1), c \in {SQUARE_BLOCK, SQUARE_SPACE, SQUARE_UNKNOWN}}

LegalWords == WordsOfLen(P_SIZE)

\* --------------------------------------------------- what a clue stands for
\* The runs a clue asks for: its numbers above zero, in order (the number 0
\* stands for a line without runs).
RECURSIVE ClueRunsFrom(_, _)
ClueRunsFrom(des, k) ==
  IF k > des.m_count THEN <<>>
  ELSE IF des.m_numbers[k] > 0 THEN <<des.m_numbers[k]>> \o ClueRunsFrom(des, k + 1)
  ELSE ClueRunsFrom(des, k + 1)

ClueRuns(des) == ClueRunsFrom(des, 1)

\* The lengths of the maximal BLACK runs of cells k .. P_SIZE - 1 of a word
\* without UNKNOWN cells, cur being the length of the run that reaches cell k.
RECURSIVE RunsFrom(_, _, _)
RunsFrom(w, k, cur) ==
  IF k = P_SIZE THEN (IF cur > 0 THEN <<cur>> ELSE <<>>)
  ELSE IF CellOf(w, k) = SQUARE_BLOCK THEN RunsFrom(w, k + 1, cur + 1)
  ELSE (IF cur > 0 THEN <<cur>> ELSE <<>>) \o RunsFrom(w, k + 1, 0)

BlackRuns(w) == RunsFrom(w, 0, 0)

\* Fully coloured words: every cell BLACK or WHITE.
RECURSIVE ColouredOfLen(_)
ColouredOfLen(n) ==
  IF n = 0 THEN {0}
  ELSE {4 * w + c : w \in ColouredOfLen(n - 1), c \in {SQUARE_BLOCK, SQUARE_SPACE}}

\* The placements of a clue consistent with a word: the fully coloured words
\* with the clue's runs that keep only colours the word still allows.
Placements(des, w) ==
  {p \in ColouredOfLen(P_SIZE) : AndNot(p, w) = 0 /\ BlackRuns(p) = ClueRuns(des)}

\* ------------------------------------------------------------ the puzzles
\* Puzzle(): 2 * P_SIZE lines without numbers.  read_buffer fills the lines
\* in order and stops at the first empty token, so that a puzzle has its first
\* nl lines read and the others as constructed.
UniformPuzzle(nl, a, b) ==
  [i \in Lines |-> IF i >= nl THEN LineNumbers
                   ELSE IF i < P_SIZE THEN ParsedLine(a) ELSE ParsedLine(b)]

LineTokens == {<<0>>, <<1>>, <<1, 1>>, <<P_SIZE + 1>>}

UniformPuzzles ==
  {UniformPuzzle(nl, a, b) : nl \in {0, P_SIZE, 2 * P_SIZE}, a \in LineTokens, b \in LineTokens}

\* A puzzle of fewer than P_SIZE columns and rows on the P_SIZE board: the
\* column tokens cols and the row tokens rows, and the token of a line without
\* runs (the number 0) for every other line.
ScenarioPuzzle(cols, rows) ==
  [i \in Lines |-> IF i < P_SIZE
                   THEN ParsedLine(IF i < Len(cols) THEN cols[i + 1] ELSE <<0>>)
                   ELSE ParsedLine(IF i - P_SIZE < Len(rows) THEN rows[i - P_SIZE + 1] ELSE <<0>>)]

\* column clues [1],[1] and row clues [1],[1]
DiagonalPuzzle == ScenarioPuzzle(<<<<1>>, <<1>>>>, <<<<1>>, <<1>>>>)

\* column clues [2],[] and row clues [1],[1]
LeftColumnPuzzle == ScenarioPuzzle(<<<<2>>, <<0>>>>, <<<<1>>, <<1>>>>)

ScenarioPuzzles == {DiagonalPuzzle, LeftColumnPuzzle}

\* A puzzle given by its solution: the BLACK cells <<column, row>> of a grid,
\* every other cell WHITE.
GridBlack ==
  { <<3, 0>>, <<1, 1>>, <<2, 1>>, <<3, 1>>, <<4, 1>>, <<2, 2>>,
    <<1, 3>>, <<2, 3>>, <<3, 3>>, <<2, 4>>, <<3, 4>>, <<4, 4>> }

GridColour(x, y) == IF <<x, y>> \in GridBlack THEN SQUARE_BLOCK ELSE SQUARE_SPACE

RECURSIVE GridWord(_, _)
GridWord(i, k) ==
  IF k = P_SIZE THEN 0
  ELSE (IF i < P_SIZE THEN GridColour(i, k) ELSE GridColour(k, i - P_SIZE)) * 4 ^ k
       + GridWord(i, k + 1)

\* The file of the grid's puzzle, as the parsers write it: the runs of each
\* line, the number 0 for a line without runs.
GridPuzzle ==
  [i \in Lines |-> LET runs == BlackRuns(GridWord(i, 0))
                   IN ParsedLine(IF runs = <<>> THEN <<0>> ELSE runs)]

\* The cells of the grid a caller leaves UNKNOWN; it sets every other cell to
\* the grid's colour (set_and_flag clears the bits of its argument).
SwitchCells ==
  { <<2, 0>>, <<3, 0>>, <<2, 2>>, <<3, 2>>, <<1, 3>>, <<4, 3>>, <<1, 4>>, <<4, 4>> }

GridPresets(unknown) ==
  { <<x, y, SQUARE - GridColour(x, y)>> : x \in Cells, y \in Cells } \
  { <<c[1], c[2], SQUARE - GridColour(c[1], c[2])>> : c \in unknown }

AllCells == {<<x, y>> : x \in Cells, y \in Cells}

\* none preset (a fresh board), the switch cells left open, all cells preset
GridUnknowns == {AllCells, SwitchCells, {}}

\* A second grid, whose cells (3,2), (4,2), (3,4), (4,4) can be coloured in
\* two ways under the same clues: its BLACK cells, and its puzzle as the
\* parsers write it (columns [0] [2,1] [0] [2] [2], rows [0] [1] [1,1] [2]
\* [1,1]).
PairBlack ==
  { <<1, 1>>, <<1, 2>>, <<1, 4>>, <<3, 2>>, <<3, 3>>, <<4, 3>>, <<4, 4>> }

PairPuzzle ==
  ScenarioPuzzle(<<<<0>>, <<2, 1>>, <<0>>, <<2>>, <<2>>>>,
                 <<<<0>>, <<1>>, <<1, 1>>, <<2>>, <<1, 1>>>>)

PairCells == { <<3, 2>>, <<4, 2>>, <<3, 4>>, <<4, 4>> }

\* The caller sets every cell but the cells of unknown to the grid's colour.
PairPresets(unknown) ==
  { <<c[1], c[2], IF c \in PairBlack THEN SQUARE_SPACE ELSE SQUARE_BLOCK>> :
      c \in AllCells \ unknown }

\* the four cells left open, a BLACK one left open, a WHITE one left open
PairUnknowns == {PairCells, {<<3, 2>>}, {<<4, 2>>}}

\* A third grid (columns [0] [1,1] [1,2] [1] [1], rows [0] [2] [1] [2] [2]):
\* its BLACK cells, its puzzle as the parsers write it, and the six cells a
\* caller leaves UNKNOWN.
SweepBlack ==
  { <<1, 1>>, <<2, 1>>, <<4, 2>>, <<2, 3>>, <<3, 3>>, <<1, 4>>, <<2, 4>> }

SweepPuzzle ==
  ScenarioPuzzle(<<<<0>>, <<1, 1>>, <<1, 2>>, <<1>>, <<1>>>>,
                 <<<<0>>, <<2>>, <<1>>, <<2>>, <<2>>>>)

SweepCells == { <<2, 2>>, <<1, 3>>, <<3, 3>>, <<4, 3>>, <<1, 4>>, <<3, 4>> }

SweepPresets ==
  { <<c[1], c[2], IF c \in SweepBlack THEN SQUARE_SPACE ELSE SQUARE_BLOCK>> :
      c \in AllCells \ SweepCells }

\* ------------------------------------------------- the objects at start-up
\* The Boards made while the modules are loaded and the caller is set up, in
\* order: the trial boards of search_solver and of search_verify, the
\* caller's two boards, the SearchStack.
BoardAt(n) ==
  [num_of_square_on_board |-> 0, col_string |-> 2 * n + 1, row_string |-> 2 * n + 2]

StaticBoards(base) ==
  [i \in Cells |-> [j \in Cells |-> BoardAt(base + i * P_SIZE + j)]]

StartHeap == [k \in 1 .. 2 * (4 * S_SIZE + 2) |-> ZeroList]

StartStack == SearchStack(StartHeap)

Machine(h, q, db, cache, sb, sw, vb, vw) ==
  [ heap |-> h, q |-> q, db |-> db, cache |-> cache, nocache |-> FALSE, exc |-> "none",
    sb |-> sb, sw |-> sw, vb |-> vb, vw |-> vw ]

StartMachine ==
  Machine(StartStack.heap, MyQueue, DependencyTable, initial_hash,
          StaticBoards(0), StaticBoards(S_SIZE),
          StaticBoards(2 * S_SIZE), StaticBoards(3 * S_SIZE))

\* The engine state of the current state, and the step that installs one.
Mach ==
  Machine(heap, myQ, db_table, line_cache, if_guess_black_board, if_guess_white_board,
          verify_black_board, verify_white_board)

SetMach(m) ==
  /\ heap' = m.heap
  /\ myQ' = m.q
  /\ db_table' = m.db
  /\ line_cache' = m.cache
  /\ if_guess_black_board' = m.sb
  /\ if_guess_white_board' = m.sw
  /\ verify_black_board' = m.vb
  /\ verify_white_board' = m.vw

\* The queue harness before the first operation: the reference FIFO is empty,
\* nothing was popped, no operation was made.
QueueStart == [fifo |-> <<>>, popped |-> -1, expected |-> -1, ops |-> 0]

\* The state after start-up, before the caller's first call, for the puzzle
\* pz and the cells td the caller is going to set.
Start(pz, td) ==
  /\ heap = StartMachine.heap
  /\ myQ = StartMachine.q
  /\ db_table = StartMachine.db
  /\ line_cache = StartMachine.cache
  /\ if_guess_black_board = StartMachine.sb
  /\ if_guess_white_board = StartMachine.sw
  /\ verify_black_board = StartMachine.vb
  /\ verify_white_board = StartMachine.vw
  /\ problem = pz
  /\ todo = td
  /\ solution = BoardAt(4 * S_SIZE)
  /\ one_solution = BoardAt(4 * S_SIZE + 1)
  /\ is_find_solution = FALSE
  /\ node_count = 0
  /\ stack = StartStack.stack
  /\ checkpoint = <<>>
  /\ pc = "constructed"
  /\ call = "none"
  /\ result = -1
  /\ raised = "none"
  /\ probed = <<>>
  /\ puzzles = 1

Init ==
  /\ lclue = LineNumbers
  /\ lword = FullWord
  /\ lres = DpStart
  /\ lpc = "idle"
  /\ qh = QueueStart
  /\ \/ \E pz \in UniformPuzzles \cup ScenarioPuzzles : Start(pz, {})
     \/ \E u \in GridUnknowns : Start(GridPuzzle, GridPresets(u))
     \/ \E u \in PairUnknowns : Start(PairPuzzle, PairPresets(u))
     \/ Start(SweepPuzzle, SweepPresets)

\* How a call of the engine ends: with an exception, which ends the process,
\* or with its return value.
Finish(name, m, ret, next_pc) ==
  /\ SetMach(m)
  /\ call' = name
  /\ IF m.exc # "none"
       THEN pc' = "crashed" /\ raised' = m.exc /\ result' = -1
       ELSE pc' = next_pc /\ raised' = "none" /\ result' = ret

\* main.py: init_board on the caller's boards (lines 37-38, 56-57, 93, 110-111).
InitBoard ==
  /\ pc = "constructed"
  /\ LET a == init_board(one_solution, Mach)
         b == init_board(solution, a.m)
     IN /\ SetMach(b.m)
        /\ one_solution' = a.sol
        /\ solution' = b.sol
  /\ pc' = "fresh"
  /\ UNCHANGED <<lineVars, problem, is_find_solution, node_count, stack, checkpoint,
                 call, result, raised, todo, probed, puzzles>>

CellIndex(x, y) == x * P_SIZE + y

\* set_and_flag on the next cell the caller sets, in scan order.
SetAndFlag ==
  /\ pc \in {"fresh", "preset"}
  /\ todo # {}
  /\ LET t == CHOOSE t \in todo :
                \A u \in todo : CellIndex(t[1], t[2]) <= CellIndex(u[1], u[2])
         s == set_and_flag(t[1], t[2], solution, t[3], Mach)
     IN /\ SetMach(s.m)
        /\ solution' = s.sol
        /\ todo' = todo \ {t}
  /\ pc' = "preset"
  /\ UNCHANGED <<lineVars, problem, one_solution, is_find_solution, node_count, stack,
                 checkpoint, call, result, raised, probed, puzzles>>

CallLineSolver ==
  /\ pc \in {"fresh", "preset"}
  /\ todo = {}
  /\ puzzles = 1
  /\ LET Returned(r) == /\ Finish("line_solver", r.m, r.ret, "propagated")
                        /\ solution' = r.sol
     IN Returned(line_solver(problem, solution, Mach))
  /\ UNCHANGED <<lineVars, problem, one_solution, is_find_solution, node_count, stack,
                 checkpoint, todo, probed, puzzles>>

\* solve_one_two_sat on the UNKNOWN cell (x, y) with the cell's two trial
\* boards, as a sweep of two_sat_solver calls it: on a board the driver has
\* left UNSOLVED or (resumable_solver, line 148) in CONFLICT, cells in scan
\* order.
CallProbe(x, y) ==
  /\ pc = "propagated"
  /\ \/ call = "line_solver" /\ result \in {UNSOLVED, CONFLICT}
     \/ call = "solve_one_two_sat" /\ result = UNSOLVED
  /\ Len(probed) < MaxProbes
  /\ probed # <<>> => CellIndex(x, y) > probed[Len(probed)]
  /\ get_square(x, y, solution, heap) = SQUARE_UNKNOWN
  /\ LET Returned(r) ==
           /\ Finish("solve_one_two_sat", [r.m EXCEPT !.sb[x][y] = r.gb, !.sw[x][y] = r.gw],
                     r.ret, "propagated")
           /\ solution' = r.cb
     IN Returned(solve_one_two_sat(problem, solution, if_guess_black_board[x][y],
                                   if_guess_white_board[x][y], x, y, Mach))
  /\ probed' = Append(probed, CellIndex(x, y))
  /\ UNCHANGED <<lineVars, problem, one_solution, is_find_solution, node_count, stack,
                 checkpoint, todo, puzzles>>

\* solve_one_two_sat_verify on the UNKNOWN cell (x, y) with the cell's two
\* trial boards of search_verify, as a sweep of two_sat_solver_verify calls it
\* (search_verify.py lines 165-171): on a board the driver has left UNSOLVED
\* or in CONFLICT, cells in scan order.
CallProbeVerify(x, y) ==
  /\ pc = "propagated"
  /\ \/ call = "line_solver" /\ result \in {UNSOLVED, CONFLICT}
     \/ call = "solve_one_two_sat_verify" /\ result = UNSOLVED
  /\ Len(probed) < MaxProbes
  /\ probed # <<>> => CellIndex(x, y) > probed[Len(probed)]
  /\ get_square(x, y, solution, heap) = SQUARE_UNKNOWN
  /\ LET Returned(r) ==
           /\ Finish("solve_one_two_sat_verify",
                     [r.m EXCEPT !.vb[x][y] = r.gb, !.vw[x][y] = r.gw], r.ret, "propagated")
           /\ solution' = r.cb
           /\ one_solution' = r.os
           /\ is_find_solution' = r.found
     IN Returned(solve_one_two_sat_verify(problem, solution, one_solution, is_find_solution,
                                          verify_black_board[x][y], verify_white_board[x][y],
                                          x, y, Mach))
  /\ probed' = Append(probed, CellIndex(x, y))
  /\ UNCHANGED <<lineVars, problem, node_count, stack, checkpoint, todo, puzzles>>

\* main.py lines 42-45, 88-95: search_one_solution on the board just
\* initialised.
CallSearchOne ==
  /\ pc = "fresh"
  /\ todo = {}
  /\ puzzles = 1 \/ call = "search_one_solution"
  /\ LET Returned(r) == /\ Finish("search_one_solution", r.m, r.ret, "returned")
                        /\ solution' = r.sol
                        /\ node_count' = r.node_count
     IN Returned(search_one_solution(problem, solution, 0, Mach))
  /\ UNCHANGED <<lineVars, problem, one_solution, is_find_solution, stack, checkpoint,
                 todo, probed, puzzles>>

\* main.py lines 54-60, 109-116: search_two_solutions on the boards just
\* initialised.
CallSearchTwo ==
  /\ pc = "fresh"
  /\ todo = {}
  /\ puzzles = 1 \/ call = "search_two_solutions"
  /\ LET Returned(r) == /\ Finish("search_two_solutions", r.m, r.ret, "returned")
                        /\ solution' = r.sol
                        /\ one_solution' = r.os
                        /\ is_find_solution' = r.found
                        /\ node_count' = r.node_count
     IN Returned(search_two_solutions(FALSE, problem, solution, one_solution, 0, Mach))
  /\ UNCHANGED <<lineVars, problem, stack, checkpoint, todo, probed, puzzles>>

\* scheduled_solver line 199: resumable_solver is called, for the first time
\* or again after a TIMEOUT, and runs up to its loop of steps.
ResumableEnter(node_limit) ==
  /\ \/ pc = "constructed" /\ puzzles = 1
     \/ pc = "returned" /\ call = "resumable_solver" /\ result = TIMEOUT
  /\ LET Entered(e) ==
           /\ Finish("resumable_solver", e.m, IF e.ret = SOLVED THEN SOLVED ELSE -1,
                     IF e.ret = SOLVED THEN "returned" ELSE "stepping")
           /\ stack' = e.stack
     IN Entered(resumable_enter(checkpoint, problem, node_limit, stack, Mach))
  /\ UNCHANGED <<lineVars, problem, solution, one_solution, is_find_solution, node_count,
                 checkpoint, todo, probed, puzzles>>

\* One resumable_dfs call of the loop of resumable_solver.
ResumableStep ==
  /\ pc = "stepping"
  /\ LET Stepped(r) ==
           /\ Finish("resumable_solver", r.m, IF r.ret = UNSOLVED THEN -1 ELSE r.ret,
                     IF r.ret = UNSOLVED THEN "stepping" ELSE "returned")
           /\ stack' = r.stack
           /\ checkpoint' = IF r.saved THEN stack_save(r.stack, r.m.heap) ELSE checkpoint
     IN Stepped(resumable_dfs(problem, stack, Mach))
  /\ UNCHANGED <<lineVars, problem, solution, one_solution, is_find_solution, node_count,
                 todo, probed, puzzles>>

\* main.py lines 87-88: the batch loop goes on to the next puzzle, with new
\* boards and everything else of the process as it is.
NextPuzzle ==
  /\ pc = "returned"
  /\ call \in {"search_one_solution", "search_two_solutions"}
  /\ puzzles < MaxPuzzles
  /\ problem' \in UniformPuzzles
  /\ LET a == Board(heap)
         b == Board(a.heap)
     IN /\ heap' = b.heap
        /\ solution' = a.board
        /\ one_solution' = b.board
  /\ pc' = "constructed"
  /\ result' = -1
  /\ node_count' = 0
  /\ is_find_solution' = FALSE
  /\ puzzles' = puzzles + 1
  /\ UNCHANGED <<lineVars, myQ, db_table, line_cache, if_guess_black_board,
                 if_guess_white_board, verify_black_board, verify_white_board,
                 stack, checkpoint, call, raised, todo, probed>>

Next ==
  \/ InitBoard
  \/ SetAndFlag
  \/ CallLineSolver
  \/ \E x \in Cells, y \in Cells : CallProbe(x, y)
  \/ \E x \in Cells, y \in Cells : CallProbeVerify(x, y)
  \/ CallSearchOne
  \/ CallSearchTwo
  \/ \E node_limit \in 0 .. MaxNodeLimit : ResumableEnter(node_limit)
  \/ ResumableStep
  \/ NextPuzzle

Spec == Init /\ [][Next]_vars

\* ----------------------------------------------------- Prober specification
\* two_sat_solver with a new SquareToGo (search_solver.py lines 200-203), on
\* the board the driver has left UNSOLVED or (resumable_solver, line 148) in
\* CONFLICT.
CallProber ==
  /\ pc = "propagated"
  /\ call = "line_solver"
  /\ result \in {UNSOLVED, CONFLICT}
  /\ LET Returned(t) == /\ Finish("two_sat_solver", t.m, t.ret, "swept")
                        /\ solution' = t.cb
         Made(g) == Returned(two_sat_solver(problem, solution, g.wcig,
                                            [Mach EXCEPT !.heap = g.heap]))
     IN Made(SquareToGo(heap))
  /\ UNCHANGED <<lineVars, problem, one_solution, is_find_solution, node_count, stack,
                 checkpoint, todo, probed, puzzles>>

NextProber ==
  \/ InitBoard
  \/ SetAndFlag
  \/ CallLineSolver
  \/ CallProber

SpecProber == Init /\ [][NextProber]_vars

\* ------------------------------------------------------- line specification
InitLine ==
  /\ lclue \in ClueSet \cup MostRuns
  /\ lword \in LegalWords
  /\ lres = DpStart
  /\ lpc = "ready"
  /\ qh = QueueStart
  /\ Start(UniformPuzzle(0, <<0>>, <<0>>), {})

\* One run of the DP as the driver starts it (line_solver.py lines 131-139).
SolveLine ==
  /\ lpc = "ready"
  /\ lres' = RunDp(lclue, lword)
  /\ lpc' = "done"
  /\ UNCHANGED <<lclue, lword, qh, engineVars, callerVars>>

NextLine == SolveLine

SpecLine == InitLine /\ [][NextLine]_vars

DpSucceeded == lpc = "done" /\ lres.exc = "none" /\ lres.ret
DpFailed == lpc = "done" /\ lres.exc = "none" /\ ~lres.ret
DpRaised == lpc = "done" /\ lres.exc # "none"

\* C4: when the DP succeeds on a word without illegal cells, the settled word
\* keeps only bits of the input word, and every colour it removes from a cell
\* is a colour that cell has in no placement consistent with the word.
C4_Sound ==
  DpSucceeded =>
    /\ AndNot(lres.settle, lword) = 0
    /\ \A k \in Cells : \A c \in {SQUARE_BLOCK, SQUARE_SPACE} :
         (BitAnd(CellOf(lword, k), c) # 0 /\ BitAnd(CellOf(lres.settle, k), c) = 0)
           => \A p \in Placements(lclue, lword) : CellOf(p, k) # c

\* C4 witness: the DP succeeded on a clue of two runs and removed a colour.
C4_Witness ==
  /\ DpSucceeded
  /\ Len(ClueRuns(lclue)) = 2
  /\ lres.settle # lword

\* C5: the DP fails exactly when no placement is consistent with the word,
\* and succeeds whenever there is one.
C5_Complete ==
  lpc = "done" =>
    /\ (Placements(lclue, lword) = {} => DpFailed)
    /\ (Placements(lclue, lword) # {} => DpSucceeded)

\* ---------------------------------------------------- the solver's claims
\* The board the last call worked on.
CurrentBoard == IF call = "resumable_solver" THEN stack.solution ELSE solution

\* An engine operation has completed on the current board.
Completed == pc \in {"fresh", "preset", "propagated", "stepping", "returned"}

RowWord(b, y) == heap[b.row_string][y]
ColWord(b, x) == heap[b.col_string][x]

IsColoured(w) == \A k \in Cells : CellOf(w, k) \in {SQUARE_BLOCK, SQUARE_SPACE}

\* Every line of board b is fully coloured with the runs of its clue.
SatisfiesClues(b) ==
  /\ \A x \in Cells : /\ IsColoured(ColWord(b, x))
                      /\ BlackRuns(ColWord(b, x)) = ClueRuns(problem[x])
  /\ \A y \in Cells : /\ IsColoured(RowWord(b, y))
                      /\ BlackRuns(RowWord(b, y)) = ClueRuns(problem[P_SIZE + y])

ReturnedSolved ==
  \/ pc = "propagated" /\ call = "line_solver" /\ result = SOLVED
  \/ pc = "returned" /\ call \in {"search_one_solution", "resumable_solver"}
       /\ result = SOLVED

\* C1: whenever line_solver, two_sat_solver (the step of the resumable
\* search), search_one_solution or resumable_solver returns SOLVED, the board
\* has no UNKNOWN cell and the BLACK runs of each of its 2N lines are the
\* line's clue numbers.
C1_SolvedBoardValid == ReturnedSolved => SatisfiesClues(CurrentBoard)

\* C1 witness: search_one_solution returned SOLVED on a puzzle whose columns
\* were read from a file.
C1_Witness ==
  /\ pc = "returned"
  /\ call = "search_one_solution"
  /\ result = SOLVED
  /\ problem[0].m_count > 0

Coherent(b) ==
  \A i \in Cells : \A j \in Cells :
    CellOf(ColWord(b, i), j) = CellOf(RowWord(b, j), i)

\* C6: after every engine operation, for every cell (i, j) the two bits at
\* position j of col[i] equal the two bits at position i of row[j].
C6_Coherent == Completed => Coherent(CurrentBoard)

\* C6 witness: a probe whose two trials were both UNSOLVED has merged them
\* into the board.
C6_Witness ==
  /\ pc = "propagated"
  /\ call = "solve_one_two_sat"
  /\ result = UNSOLVED
  /\ \E x \in Cells : ColWord(solution, x) # FullWord /\ ~IsColoured(ColWord(solution, x))

Determined(b) ==
  Cardinality({c \in AllCells : get_square(c[1], c[2], b, heap) \in {SQUARE_BLOCK, SQUARE_SPACE}})

\* C7: after every engine operation the board's determined counter is the
\* number of its cells that are BLACK or WHITE.
C7_DeterminedCount ==
  Completed => CurrentBoard.num_of_square_on_board = Determined(CurrentBoard)

NoZeroCell(b) ==
  \A c \in AllCells : get_square(c[1], c[2], b, heap) # 0

\* The levels of the resumable search that hold the branches of a node.
FramesInUse ==
  {d \in Depths : call = "resumable_solver" /\ d < stack.depth /\ stack.step[d] # 0}

\* C8: no cell of a board reached from init_board by the searches (the
\* current board, first_go and second_go of the nodes on the stack) has the
\* two bits 00.
C8_NoZeroCell ==
  Completed =>
    /\ NoZeroCell(CurrentBoard)
    /\ \A d \in FramesInUse : /\ NoZeroCell(stack.where_can_i_go[d].first_go)
                              /\ NoZeroCell(stack.where_can_i_go[d].second_go)

\* ------------------------------------------------ the puzzle's solutions
\* A clue fits in the line: its runs and the gaps between them take at most
\* P_SIZE cells.
ClueFits(des) ==
  des.m_count = 0 \/ des.m_sum[des.m_count] + des.m_count - 1 <= P_SIZE

\* The grids (row words, top row first) whose rows y .. P_SIZE - 1 have the
\* runs of their clues.
RECURSIVE GridsFrom(_)
GridsFrom(y) ==
  IF y = P_SIZE THEN {<<>>}
  ELSE {<<p>> \o g : p \in Placements(problem[P_SIZE + y], FullWord), g \in GridsFrom(y + 1)}

RECURSIVE GridColFrom(_, _, _)
GridColFrom(g, x, y) ==
  IF y = P_SIZE THEN 0 ELSE CellOf(g[y + 1], x) * 4 ^ y + GridColFrom(g, x, y + 1)

Solutions ==
  {g \in GridsFrom(0) : \A x \in Cells : BlackRuns(GridColFrom(g, x, 0)) = ClueRuns(problem[x])}

Ended(name) == pc \in {"returned", "crashed"} /\ call = name

\* C2: on a puzzle whose clues each fit in the line, search_one_solution on
\* a freshly initialised board returns SOLVED if the puzzle has a solution
\* and CONFLICT if it has none.
C2_SearchOneDecides ==
  (Ended("search_one_solution") /\ puzzles = 1 /\ \A i \in Lines : ClueFits(problem[i]))
    => /\ raised = "none"
       /\ result = IF Solutions # {} THEN SOLVED ELSE CONFLICT

\* C3: search_two_solutions on a freshly initialised board returns CONFLICT
\* iff the puzzle has no solution, SOLVED iff it has exactly one, and
\* MANY_SOLUTION iff it has two or more.
C3_SearchTwoCounts ==
  (Ended("search_two_solutions") /\ puzzles = 1)
    => /\ raised = "none"
       /\ result = IF Solutions = {} THEN CONFLICT
                   ELSE IF Cardinality(Solutions) = 1 THEN SOLVED
                   ELSE MANY_SOLUTION

\* The words of a board in a heap.
BoardWords(b, h) == <<h[b.col_string], h[b.row_string]>>

\* C9: a call of search_one_solution that uses the line cache of the process
\* ends as the same call does when every cache lookup misses: the same
\* result or exception and the same board.
C9_CacheTransparent ==
  [][(pc = "fresh" /\ call' = "search_one_solution" /\ pc' \in {"returned", "crashed"})
       => LET Same(r) == /\ raised' = r.m.exc
                         /\ r.m.exc = "none" => result' = r.ret
                         /\ BoardWords(solution', heap') = BoardWords(r.sol, r.m.heap)
          IN Same(search_one_solution(problem, solution, 0, [Mach EXCEPT !.nocache = TRUE]))]_vars

\* The node limit of a run whose budget is never exhausted.
Budget == 1000

\* The resumable run of the puzzle in one call, from the state at start-up.
Uninterrupted == resumable_solver(<<>>, problem, Budget, StartStack.stack, StartMachine)

\* C10: a resumable run that was interrupted by TIMEOUT and resumed from its
\* checkpoint ends as the run in one call does: the same final state, the
\* same node_count and the same solution board.
C10_RoundTrip ==
  (Ended("resumable_solver") /\ checkpoint # <<>> /\ ~(pc = "returned" /\ result = TIMEOUT))
    => LET Same(u) ==
             /\ raised = u.m.exc
             /\ u.m.exc = "none" =>
                  /\ result = u.ret
                  /\ stack.node_count = u.stack.node_count
                  /\ BoardWords(stack.solution, heap) = BoardWords(u.stack.solution, u.m.heap)
       IN Same(Uninterrupted)

\* ------------------------------------------- find-one against find-two
\* The call of search_one_solution on the puzzle and the board of the current
\* state agrees with a SOLVED board: it returns SOLVED with the same words.
FindsBoard(r, words) ==
  /\ r.m.exc = "none"
  /\ r.ret = SOLVED
  /\ BoardWords(r.sol, r.m.heap) = words

SecondIsNoOp(s) ==
  /\ BoardWords(s.sol, s.m.heap) = BoardWords(solution', heap')
  /\ s.sol.num_of_square_on_board = solution'.num_of_square_on_board
  /\ s.m.q = myQ'

\* C13: set_and_flag(i, j, colour) called a second time with the same
\* arguments, right after a first call, changes nothing: the col and row
\* words, the determined counter and the queue are as after the first call.
C13_SetTwiceNoOp ==
  [][(pc' = "preset" /\ todo' # todo)
       => \A t \in todo \ todo' :
            SecondIsNoOp(set_and_flag(t[1], t[2], solution', t[3], Mach'))]_vars

\* ------------------------------------------------------ driver idempotence
\* push_q on every line of S, lowest index first.
RECURSIVE PushLines(_, _)
PushLines(q, S) ==
  IF S = {} THEN q
  ELSE LET i == CHOOSE x \in S : \A y \in S : x <= y
       IN PushLines(push_q(q, i), S \ {i})

\* r is a run of the driver that left the board of the current state as it
\* was and returned what the last call returned.
DriverChangedNothing(r) ==
  /\ r.m.exc = "none"
  /\ r.ret = result
  /\ BoardWords(r.sol, r.m.heap) = BoardWords(solution, heap)
  /\ r.sol.num_of_square_on_board = solution.num_of_square_on_board

WhiteWord == 2 * block_mask(P_SIZE)

\* The driver's first call on the fresh board has ended.
DriverEnded ==
  pc \in {"propagated", "crashed"} /\ call = "line_solver" /\ problem \in UniformPuzzles

\* C15: a puzzle whose 2N clue lines are all without runs (as constructed,
\* count = 0, or as parsed from an empty clue line) ends the first driver
\* pass with result SOLVED, every line all WHITE and the counter at N * N.
C15_EmptyPuzzleAllWhite ==
  (DriverEnded /\ \A i \in Lines : ClueRuns(problem[i]) = <<>>)
    => /\ raised = "none"
       /\ result = SOLVED
       /\ \A k \in Cells : RowWord(solution, k) = WhiteWord /\ ColWord(solution, k) = WhiteWord
       /\ solution.num_of_square_on_board = S_SIZE

\* ------------------------------------------------------------ forced lines
\* The clue's runs and the single WHITE cells between them take exactly the
\* P_SIZE cells of the line.
ExactFit(des) ==
  /\ des.m_count > 0
  /\ \A k \in 1 .. des.m_count : des.m_numbers[k] > 0
  /\ des.m_sum[des.m_count] + des.m_count - 1 = P_SIZE

\* C16: on an all-UNKNOWN line, a clue whose runs plus separators take
\* exactly N cells is settled by one run of the DP to its only placement:
\* every run BLACK, every separator WHITE, the first run from cell 0 on.
C16_ExactFitForced ==
  (lpc = "done" /\ lword = FullWord /\ ExactFit(lclue))
    => /\ DpSucceeded
       /\ Placements(lclue, FullWord) = {lres.settle}

\* The 5-cell line whose cell 2 is BLACK and whose other cells are UNKNOWN.
MiddleBlackWord == FullWord - shift_l(SQUARE_SPACE, 2)

\* C17: clue [3] on the length-5 line with BLACK at cell 2 and UNKNOWN
\* elsewhere: the DP succeeds and the settled word has BLACK at cells 1, 2
\* and 3 and WHITE at cells 0 and 4.
C17_MiddleBlackRunOfThree ==
  (lpc = "done" /\ P_SIZE = 5 /\ lclue = ParsedLine(<<3>>) /\ lword = MiddleBlackWord)
    => /\ DpSucceeded
       /\ \A k \in {1, 2, 3} : CellOf(lres.settle, k) = SQUARE_BLOCK
       /\ \A k \in {0, 4} : CellOf(lres.settle, k) = SQUARE_SPACE

\* ------------------------------------------------------- the small puzzles
\* The word of line i (a column for i < P_SIZE, a row otherwise) of the grid
\* whose BLACK cells <<column, row>> are those of black, from cell k on.
RECURSIVE ColouringWord(_, _, _)
ColouringWord(black, i, k) ==
  IF k = P_SIZE THEN 0
  ELSE (IF (IF i < P_SIZE THEN <<i, k>> ELSE <<k, i - P_SIZE>>) \in black
        THEN SQUARE_BLOCK ELSE SQUARE_SPACE) * 4 ^ k
       + ColouringWord(black, i, k + 1)

\* The column words and the row words of a board coloured as that grid.
Colouring(black) ==
  << [x \in Cells |-> ColouringWord(black, x, 0)],
     [y \in Cells |-> ColouringWord(black, P_SIZE + y, 0)] >>

\* C18: on the puzzle with column clues [1],[1] and row clues [1],[1] (every
\* further line of the board without runs), search_two_solutions on a fresh
\* board returns MANY_SOLUTION, and the boards it leaves, solution and
\* one_solution, are the two diagonal colourings, one each.
C18_TwoDiagonals ==
  (Ended("search_two_solutions") /\ puzzles = 1 /\ problem = DiagonalPuzzle)
    => /\ raised = "none"
       /\ result = MANY_SOLUTION
       /\ {BoardWords(solution, heap), BoardWords(one_solution, heap)}
            = {Colouring({<<0, 0>>, <<1, 1>>}), Colouring({<<1, 0>>, <<0, 1>>})}
       /\ BoardWords(solution, heap) # BoardWords(one_solution, heap)

\* C19: on the puzzle with column clues [2],[] and row clues [1],[1] (every
\* further line of the board without runs), search_one_solution and
\* search_two_solutions on a fresh board return CONFLICT.
C19_NoSolutionConflict ==
  ((Ended("search_one_solution") \/ Ended("search_two_solutions"))
      /\ puzzles = 1 /\ problem = LeftColumnPuzzle)
    => /\ raised = "none"
       /\ result = CONFLICT

\* ------------------------------------------------------ queue specification
\* The operations of MyQueue applied in any order to NodeQueue.myQ, next to a
\* reference FIFO without duplicates (qh.fifo): a push appends an index the
\* FIFO does not hold, a pop takes its head.
InitQueue ==
  /\ lclue = LineNumbers
  /\ lword = FullWord
  /\ lres = DpStart
  /\ lpc = "idle"
  /\ qh = QueueStart
  /\ Start(UniformPuzzle(0, <<0>>, <<0>>), {})

QueueStep(q, h) ==
  /\ qh.ops < MaxQueueOps
  /\ myQ' = q
  /\ qh' = [h EXCEPT !.ops = qh.ops + 1]
  /\ UNCHANGED <<lclue, lword, lres, lpc, heap, db_table, line_cache, if_guess_black_board,
                 if_guess_white_board, verify_black_board, verify_white_board, callerVars>>

Held(f) == {f[k] : k \in 1 .. Len(f)}

QueueInitial == QueueStep(initial(myQ), [qh EXCEPT !.fifo = <<>>])

\* init_board lines 106-110: initial(), then push_q of every line in order.
QueueInitBoard ==
  QueueStep(PushAll(initial(myQ), 0), [qh EXCEPT !.fifo = [k \in 1 .. 2 * P_SIZE |-> k - 1]])

QueuePush(index) ==
  QueueStep(push_q(myQ, index),
            [qh EXCEPT !.fifo = IF index \in Held(@) THEN @ ELSE Append(@, index)])

\* The callers pop only when is_empty() is false (line_solver.py line 114).
QueuePop ==
  /\ ~is_empty(myQ)
  /\ QueueStep(pop_and_front(myQ),
               [qh EXCEPT !.popped = front(myQ),
                          !.expected = IF qh.fifo = <<>> THEN -2 ELSE Head(qh.fifo),
                          !.fifo = IF qh.fifo = <<>> THEN <<>> ELSE Tail(qh.fifo)])

QueueClear == QueueStep(clear(myQ), [qh EXCEPT !.fifo = <<>>])

NextQueue ==
  \/ QueueInitial
  \/ QueueInitBoard
  \/ \E index \in Lines : QueuePush(index)
  \/ QueuePop
  \/ QueueClear

SpecQueue == InitQueue /\ [][NextQueue]_vars

\* The indices stored in data_q from f_pos up to r_pos, in order.
Stored(q) ==
  [k \in 1 .. (q.r_pos - q.f_pos + max_size) % max_size
     |-> q.data_q[(q.f_pos + k - 1) % max_size]]

\* C20: after any sequence of initial, push_q, pop_and_front (on a queue
\* that is not empty) and clear, the queue is a FIFO without duplicates: the
\* indices stored from f_pos up to r_pos are those of the effective pushes
\* not popped yet, in the order of the pushes (a push of an index that is
\* present changes nothing), the last pop returned the oldest of them, in_q
\* is true exactly for the stored indices, no index is stored twice, at most
\* 2N indices are stored, and is_empty holds exactly when none is.
C20_QueueFifo ==
  /\ Stored(myQ) = qh.fifo
  /\ qh.popped = qh.expected
  /\ \A index \in Lines : myQ.in_q[index] <=> index \in Held(Stored(myQ))
  /\ Cardinality(Held(Stored(myQ))) = Len(Stored(myQ))
  /\ Len(Stored(myQ)) <= 2 * P_SIZE
  /\ is_empty(myQ) <=> qh.fifo = <<>>

\* C20 witness: after a pop, a full queue (2N indices) that wraps around the
\* end of data_q.
C20_Witness ==
  /\ qh.popped >= 0
  /\ Len(Stored(myQ)) = 2 * P_SIZE
  /\ myQ.r_pos < myQ.f_pos
  /\ ~is_empty(myQ)

\* ------------------------------------------------------------ setting a cell
\* Cell (x, y) of the board reads c in the row list and in the column list.
CellReads(x, y, c, b, h) ==
  /\ get_square(x, y, b, h) = c
  /\ CellOf(h[b.col_string][x], y) = c

\* Every cell but (x, y) reads in the second board as in the first.
OthersKept(x, y, b1, h1, b2, h2) ==
  \A c \in AllCells \ {<<x, y>>} :
    /\ get_square(c[1], c[2], b2, h2) = get_square(c[1], c[2], b1, h1)
    /\ CellOf(h2[b2.col_string][c[1]], c[2]) = CellOf(h1[b1.col_string][c[1]], c[2])

\* C21: when set_and_flag(i, j, color) is called on an UNKNOWN cell, with
\* color BLACK or WHITE, the cell then reads color in the row word and in the
\* column word, and no other cell changes.
C21_SetLeavesColour ==
  [][(pc' = "preset" /\ todo' # todo)
       => \A t \in todo \ todo' :
            CellReads(t[1], t[2], SQUARE_UNKNOWN, solution, heap)
              => /\ CellReads(t[1], t[2], t[3], solution', heap')
                 /\ OthersKept(t[1], t[2], solution, heap, solution', heap')]_vars

\* ---------------------------------------------------------------- bit counts
\* The number of set bits of x.
RECURSIVE PopCount(_)
PopCount(x) == IF x = 0 THEN 0 ELSE (x % 2) + PopCount(x \div 2)

\* C22: count64(x) is the number of set bits of x, and COUNT64(x) the number
\* of set bits of x within the 2N-bit mask of a line, for every line word x.
C22_CountsBits ==
  lpc = "done" => /\ count64(lword) = PopCount(lword)
                  /\ COUNT64(lword) = PopCount(BitAnd(lword, FullWord))

\* ------------------------------------------------------------ the clue sums
\* numbers[1] + ... + numbers[k] of a clue.
RECURSIVE NumbersTo(_, _)
NumbersTo(des, k) == IF k = 0 THEN 0 ELSE NumbersTo(des, k - 1) + des.m_numbers[k]

\* sum[0] = 0 and sum[k] is the least number of cells the first k runs take
\* with the single WHITE cells between them.
SumsWithSeparators(des) ==
  /\ des.m_sum[0] = 0
  /\ \A k \in 1 .. des.m_count : des.m_sum[k] = NumbersTo(des, k) + (k - 1)

\* C23: after read_buffer every line of the puzzle has sum[0] = 0 and
\* sum[k] = numbers[1] + ... + numbers[k] + (k - 1) for 1 <= k <= count, and
\* no operation of the solver changes a clue (the puzzle changes only when
\* the next one is read).
C23_ClueSums ==
  [][/\ \A i \in Lines : SumsWithSeparators(problem'[i])
     /\ pc' # "constructed" => problem' = problem]_vars

\* ------------------------------------------------- the resumable search steps
\* The step number resumable_dfs reads at line 82 in the current state.
StepAtDepth == stack.step[PyIndex(stack.depth)]

\* A call of resumable_dfs that returned took the current state to the next.
DfsStepReturned == pc = "stepping" /\ raised' = "none"

StepTimedOut == pc' = "returned" /\ result' = TIMEOUT

C25_NegativeDepthIsConflict ==
  [][pc = "stepping" =>
       /\ stack.depth >= 0
       /\ (raised' = "none" /\ stack'.depth < 0) => (pc' = "returned" /\ result' = CONFLICT)
       /\ checkpoint' # <<>> => checkpoint'[1].stack.depth >= 0]_vars

\* ------------------------------------------------------------- determinism
\* search_one_solution on the puzzle in a process that has solved nothing
\* before: the caller's board of start-up, freshly initialised.
FirstRun(b) == search_one_solution(problem, b.sol, 0, b.m)

\* C26: search_one_solution on a freshly initialised board ends as the same
\* call on the same puzzle does in a process that has solved nothing before:
\* the same return value (or exception), the same node count and the same
\* board, whatever earlier solves left in the stored trial boards, the
\* dependency tables, the work queue and the line cache.
C26_Deterministic ==
  [][(pc = "fresh" /\ call' = "search_one_solution" /\ pc' \in {"returned", "crashed"})
       => LET Same(r) == /\ raised' = r.m.exc
                         /\ r.m.exc = "none" => result' = r.ret
                         /\ node_count' = r.node_count
                         /\ BoardWords(solution', heap') = BoardWords(r.sol, r.m.heap)
          IN Same(FirstRun(init_board(BoardAt(4 * S_SIZE), StartMachine)))]_vars

\* ------------------------------------------------ snapshot and restore
\* The cell a probe step of the caller probed.
ProbedX == probed'[Len(probed')] \div P_SIZE
ProbedY == probed'[Len(probed')] % P_SIZE
ProbeStep == pc = "propagated" /\ probed' # probed /\ call' = "solve_one_two_sat"

\* Lines 47-52 of solve_one_two_sat on the current board: the snapshot d, and
\* the first trial on cell (x, y).
FirstTrial(d, x, y) ==
  LET Tried(s) == line_solver(problem, s.sol, [s.m EXCEPT !.db.this_temp_table = {}])
  IN Tried(set_and_flag(x, y, solution, SQUARE_SPACE, [Mach EXCEPT !.heap = d.heap]))

\* Lines 53-54 and 72-77: the second trial after the first trial w returned
\* UNSOLVED.
SecondTrial(d, w, x, y) ==
  LET Tried(s) == line_solver(problem, s.sol, [s.m EXCEPT !.db.this_temp_table = {}])
  IN Tried(set_and_flag(x, y, DictUpdate(w.sol, d.board), SQUARE_BLOCK,
                        [w.m EXCEPT !.db.this_update_table = @ \cup w.m.db.this_temp_table]))

\* Board b in heap h has the words and the counter of the snapshot d.
EqualsSnapshot(b, h, d) ==
  /\ BoardWords(b, h) = BoardWords(d.board, d.heap)
  /\ b.num_of_square_on_board = d.board.num_of_square_on_board

\* After the first trial w the board is restored to the snapshot, and when
\* both trials are UNSOLVED the intersect step starts from the snapshot.
RestoredToSnapshot(d, w, x, y) ==
  (w.m.exc = "none" /\ w.ret = UNSOLVED)
    => /\ EqualsSnapshot(DictUpdate(w.sol, d.board), w.m.heap, d)
       /\ LET Kept(b) == (b.m.exc = "none" /\ b.ret = UNSOLVED)
                           => EqualsSnapshot(DictUpdate(b.sol, d.board), b.m.heap, d)
          IN Kept(SecondTrial(d, w, x, y))

\* The trial boards stored for the cells probed before keep their words.
StoredBoardsKept ==
  \A k \in 1 .. Len(probed) :
    LET i == probed[k] \div P_SIZE
        j == probed[k] % P_SIZE
    IN /\ BoardWords(if_guess_black_board'[i][j], heap') = BoardWords(if_guess_black_board[i][j], heap)
       /\ BoardWords(if_guess_white_board'[i][j], heap') = BoardWords(if_guess_white_board[i][j], heap)

\* C27: in a probe, the board is restored to the snapshot R after the first
\* trial, so that the second trial starts from R; when both trials return
\* UNSOLVED the intersect step starts from a board whose column words, row
\* words and counter are those of R; and the trial boards stored by earlier
\* probes are not altered by the probe.
C27_SnapshotRestore ==
  [][ProbeStep =>
       /\ LET Snapshot(d) == RestoredToSnapshot(d, FirstTrial(d, ProbedX, ProbedY), ProbedX, ProbedY)
          IN Snapshot(deepcopy(solution, heap))
       /\ StoredBoardsKept]_vars

\* ------------------------------------------------------- the intersect step
\* Lines 88-107 after both trials w and b returned UNSOLVED: the merge loop on
\* the restored board, before the driver is run again.  if_guess_black has
\* taken the board of b (line 88) and if_guess_white the board of w (line 72).
Intersect(d, w, b) ==
  MergeLoop(0, DictUpdate(b.sol, d.board), b.sol, w.sol,
            [b.m EXCEPT !.db.this_update_table = @ \cup b.m.db.this_temp_table], FALSE)

\* R.line AND (Bb.line OR Bw.line) for the column words (1) or row words (2).
Intersected(d, w, b, side) ==
  [l \in Cells |-> BitAnd(BoardWords(d.board, d.heap)[side][l],
                          BitOr(BoardWords(b.sol, b.m.heap)[side][l],
                                BoardWords(w.sol, b.m.heap)[side][l]))]

\* The cells UNKNOWN in the snapshot d and BLACK or WHITE after the merge g.
NewlyDetermined(d, g) ==
  {c \in AllCells : /\ get_square(c[1], c[2], d.board, d.heap) = SQUARE_UNKNOWN
                    /\ get_square(c[1], c[2], g.cb, g.m.heap) \in {SQUARE_BLOCK, SQUARE_SPACE}}

IntersectRight(d, w, b, g) ==
  /\ BoardWords(g.cb, g.m.heap) = <<Intersected(d, w, b, 1), Intersected(d, w, b, 2)>>
  /\ g.cb.num_of_square_on_board
       = d.board.num_of_square_on_board + Cardinality(NewlyDetermined(d, g))
  /\ \A l \in Cells :
       /\ BoardWords(g.cb, g.m.heap)[1][l] # BoardWords(d.board, d.heap)[1][l] => g.m.q.in_q[l]
       /\ BoardWords(g.cb, g.m.heap)[2][l] # BoardWords(d.board, d.heap)[2][l]
            => g.m.q.in_q[l + P_SIZE]

BothUnsolved(w, b) ==
  /\ w.m.exc = "none" /\ w.ret = UNSOLVED
  /\ b.m.exc = "none" /\ b.ret = UNSOLVED

\* C28: after a probe in which both trials return UNSOLVED, and before the
\* driver runs again, every line of the board is R.line AND (Bb.line OR
\* Bw.line), as a row and as a column; the counter has grown by the number of
\* cells that went from UNKNOWN to determined; every line that changed is in
\* the work queue.
C28_IntersectStep ==
  [][ProbeStep =>
       LET Snapshot(d) ==
             LET First(w) ==
                   LET Second(b) == BothUnsolved(w, b) => IntersectRight(d, w, b, Intersect(d, w, b))
                   IN (w.m.exc = "none" /\ w.ret = UNSOLVED) => Second(SecondTrial(d, w, ProbedX, ProbedY))
             IN First(FirstTrial(d, ProbedX, ProbedY))
       IN Snapshot(deepcopy(solution, heap))]_vars

\* ------------------------------------------------ the Prober and the solutions
\* The full colouring g (row words, top row first) keeps, in every cell, a
\* colour that board b still allows, in the row words and the column words.
ConsistentWith(g, b, h) ==
  /\ \A y \in Cells : AndNot(g[y + 1], h[b.row_string][y]) = 0
  /\ \A x \in Cells : AndNot(GridColFrom(g, x, 0), h[b.col_string][x]) = 0

\* Board b is the full colouring g.
IsColouring(g, b, h) ==
  /\ \A y \in Cells : h[b.row_string][y] = g[y + 1]
  /\ \A x \in Cells : h[b.col_string][x] = GridColFrom(g, x, 0)

\* The Prober run t from the board of the resumable search keeps solution g.
KeepsSolution(g, t) ==
  /\ t.ret # CONFLICT
  /\ t.ret = UNSOLVED =>
       /\ ConsistentWith(g, t.cb, t.m.heap)
       /\ \/ ConsistentWith(g, t.wcig.first_go, t.m.heap)
          \/ ConsistentWith(g, t.wcig.second_go, t.m.heap)
  /\ t.ret = SOLVED =>
       \E s \in Solutions : /\ IsColouring(s, t.cb, t.m.heap)
                            /\ ConsistentWith(s, stack.solution, heap)

\* A step 0 of the resumable search is about to run the Prober.
ProberEntry == pc = "stepping" /\ ValidIndex(stack.depth) /\ StepAtDepth = 0

\* C29: the Prober keeps the solutions: for every full colouring that
\* satisfies all clues and is consistent with the board at entry, it does not
\* return CONFLICT; if it returns UNSOLVED the colouring is consistent with
\* the resulting board and with first_go or second_go; if it returns SOLVED
\* the resulting board is a solution consistent with the entry board.
C29_ProberKeepsSolutions ==
  ProberEntry =>
    LET Probed(t) ==
          t.m.exc = "none" =>
            \A g \in Solutions : ConsistentWith(g, stack.solution, heap) => KeepsSolution(g, t)
    IN Probed(two_sat_solver(problem, stack.solution,
                             stack.where_can_i_go[PyIndex(stack.depth)], Mach))

\* ------------------------------------------------------- the branching cell
\* The cell the stalled Prober run t selected (lines 164-178).
BranchCell(t) == ChooseCell(0, 0, 0, -1000000, t.cb, t.m.sb, t.m.sw, t.m.heap)

WhiteFirstBlackSecond(c, t) ==
  /\ get_square(c[1], c[2], t.cb, t.m.heap) = SQUARE_UNKNOWN
  /\ get_square(c[1], c[2], t.wcig.first_go, t.m.heap) = SQUARE_SPACE
  /\ get_square(c[1], c[2], t.wcig.second_go, t.m.heap) = SQUARE_BLOCK

\* C30: when the Prober stalls and returns UNSOLVED, the branching cell it
\* selected is UNKNOWN in the current board, WHITE in first_go and BLACK in
\* second_go (the search takes first_go first).
C30_BranchWhiteThenBlack ==
  ProberEntry =>
    LET Probed(t) ==
          (t.m.exc = "none" /\ t.ret = UNSOLVED) => WhiteFirstBlackSecond(BranchCell(t), t)
    IN Probed(two_sat_solver(problem, stack.solution,
                             stack.where_can_i_go[PyIndex(stack.depth)], Mach))

\* ------------------------------------------------- lines solved in sequence
\* A memo table that is not reset before the next line (lines 131-133 left
\* out).
KeepDp(dp) == dp

\* Lines 131-133: every entry of the memo table goes back to UNSOLVED before
\* the DP runs on the next line.
ResetDp(dp) ==
  [row \in DOMAIN dp |->
     [col \in DOMAIN dp[row] |->
        IF row \in 0 .. P_SIZE /\ col \in 0 .. (P_SIZE + 1) \div 2 - 1
          THEN UNSOLVED ELSE dp[row][col]]]

\* Lines 131-139 for the line solved after a run that left the state first:
\* the same clue on the word that run settled, as the driver meets it when
\* the line is queued again.
NextRunDp(first, des) ==
  sprint_settle(des, first.settle, P_SIZE, des.m_count,
                [DpStart EXCEPT !.dp = ResetDp(first.dp)])

\* The settled word keeps a colour in a cell iff a placement of the clue
\* consistent with the word w gives the cell that colour.
IsUnionOfPlacements(settle, des, w) ==
  \A k \in Cells : \A c \in {SQUARE_BLOCK, SQUARE_SPACE} :
     BitAnd(CellOf(settle, k), c) # 0 <=> \E p \in Placements(des, w) : CellOf(p, k) = c

NextRunIsUnion(second, des, w) ==
  (second.exc = "none" /\ second.ret) => IsUnionOfPlacements(second.settle, des, w)

\* C31: when the DP succeeds on (clue, w) the settled word is the union of
\* the placements consistent with w: a cell keeps BLACK (WHITE) iff some
\* consistent placement colours it BLACK (WHITE); and the same holds for the
\* line solved next, whatever the first run left in the memo table.
C31_SettleIsUnion ==
  DpSucceeded =>
    /\ IsUnionOfPlacements(lres.settle, lclue, lword)
    /\ NextRunIsUnion(NextRunDp(lres, lclue), lclue, lres.settle)

NextRunSucceeded(second) == second.exc = "none" /\ second.ret

\* C31 witness: the DP succeeded on a clue of two runs and removed a colour,
\* it left entries in the memo table, and the next run succeeded as well.
C31_Witness ==
  /\ DpSucceeded
  /\ Len(ClueRuns(lclue)) = 2
  /\ lres.settle # lword
  /\ lres.dp # dp_table
  /\ NextRunSucceeded(NextRunDp(lres, lclue))

\* ------------------------------------------------ the verification probe
\* The cell a verification probe step of the caller probed.
VerifyStep ==
  pc = "propagated" /\ probed' # probed /\ call' = "solve_one_two_sat_verify"

\* Lines 49-54 of solve_one_two_sat_verify on the current board: the snapshot
\* d, and the trial of line 52 ("try white/space") on cell (x, y).
VerifyFirstTrial(d, x, y) ==
  LET Tried(s) == line_solver(problem, s.sol, s.m)
  IN Tried(set_and_flag(x, y, solution, SQUARE_SPACE, [Mach EXCEPT !.heap = d.heap]))

\* Lines 57-59: the trial of line 58 ("try black") after the first trial w.
VerifySecondTrial(d, w, x, y) ==
  LET Tried(s) == line_solver(problem, s.sol, s.m)
  IN Tried(set_and_flag(x, y, DictUpdate(w.sol, d.board), SQUARE_BLOCK, w.m))

\* The board the step leaves has the words trial t ended with.
CommittedIs(t) == BoardWords(solution', heap') = BoardWords(t.sol, t.m.heap)

\* The recorded solution the step leaves has the words trial t ended with.
RecordedIs(t) == BoardWords(one_solution', heap') = BoardWords(t.sol, t.m.heap)

\* Exactly one trial SOLVED and the other UNSOLVED, s being the solved one.
OneSolvedOneUnsolved(d, s) ==
  IF ~is_find_solution
    THEN /\ result' = UNSOLVED
         /\ is_find_solution'
         /\ RecordedIs(s)
         /\ EqualsSnapshot(solution', heap', d)
  ELSE /\ result' \in {MANY_SOLUTION, UNSOLVED}
       /\ result' = MANY_SOLUTION
            <=> BoardWords(s.sol, s.m.heap)[2] # BoardWords(one_solution, heap)[2]

\* The outcome table for the white trial w and the black trial b of the cell
\* (x, y), both started from the snapshot d.
OutcomeDecides(d, w, b, x, y) ==
  /\ EqualsSnapshot(DictUpdate(w.sol, d.board), w.m.heap, d)
  /\ (w.ret = SOLVED /\ b.ret = SOLVED)
       => /\ result' = MANY_SOLUTION
          /\ CommittedIs(w)
          /\ get_square(x, y, solution', heap') = SQUARE_SPACE
          /\ RecordedIs(b)
          /\ get_square(x, y, one_solution', heap') = SQUARE_BLOCK
  /\ (w.ret = SOLVED /\ b.ret = CONFLICT) => (result' = SOLVED /\ CommittedIs(w))
  /\ (w.ret = CONFLICT /\ b.ret = SOLVED) => (result' = SOLVED /\ CommittedIs(b))
  /\ (w.ret = CONFLICT /\ b.ret = CONFLICT) => result' = CONFLICT
  /\ (w.ret = SOLVED /\ b.ret = UNSOLVED) => OneSolvedOneUnsolved(d, w)
  /\ (w.ret = UNSOLVED /\ b.ret = SOLVED) => OneSolvedOneUnsolved(d, b)

\* C32: in a verification probe that returns, both colours are tried from the
\* same snapshot and the pair of trial results decides: (SOLVED, SOLVED) gives
\* MANY_SOLUTION with the white board committed and the black board recorded
\* as the other solution; (SOLVED, CONFLICT) and (CONFLICT, SOLVED) give
\* SOLVED with the solved board committed; (CONFLICT, CONFLICT) gives
\* CONFLICT; (SOLVED, UNSOLVED) and (UNSOLVED, SOLVED) record the solved board
\* and give UNSOLVED on the snapshot when nothing was recorded before, and
\* otherwise give MANY_SOLUTION iff the solved board's rows differ from the
\* recorded ones.
C32_VerifyOutcomes ==
  [][VerifyStep =>
       LET Snapshot(d) ==
             LET First(w) ==
                   LET Second(b) ==
                         b.m.exc = "none" => OutcomeDecides(d, w, b, ProbedX, ProbedY)
                   IN w.m.exc = "none" => Second(VerifySecondTrial(d, w, ProbedX, ProbedY))
             IN First(VerifyFirstTrial(d, ProbedX, ProbedY))
       IN Snapshot(deepcopy(solution, heap))]_vars

\* ------------------------------------------ resumable against one-shot search
\* The resumable run and the call r of search_one_solution end alike: the same
\* exception, or the same verdict, node count and board.
EndsAs(r) ==
  /\ raised = r.m.exc
  /\ r.m.exc = "none" =>
       /\ result = r.ret
       /\ stack.node_count = r.node_count
       /\ BoardWords(stack.solution, heap) = BoardWords(r.sol, r.m.heap)

\* C33: a run of resumable_solver that started without a checkpoint and never
\* ran out of budget ends as search_one_solution on the same puzzle does: the
\* same verdict, the same final board and the same node count, also when the
\* first driver pass returns CONFLICT.
C33_ResumableAgrees ==
  (Ended("resumable_solver") /\ checkpoint = <<>>)
    => EndsAs(FirstRun(init_board(BoardAt(4 * S_SIZE), StartMachine)))

\* ------------------------------------------------ the driver, pop by pop
\* One pass of the loop of line_solver (lines 115-171) on a queue that is not
\* empty.  going: the loop goes on to its test; otherwise the call has ended,
\* with the exception m.exc or with the return value ret.
line_solver_pass(prob, sol, m) ==
  LET i == front(m.q)
      m1 == [m EXCEPT !.q = pop_and_front(@),
                      !.db.this_temp_table = @ \cup {i}]
      current_string == IF i < P_SIZE THEN m.heap[sol.col_string][i]
                        ELSE m.heap[sol.row_string][i - P_SIZE]
      Applied(a) == [m |-> a.m, sol |-> a.sol, ret |-> UNSOLVED, going |-> TRUE]
      Settled(settle, m2) ==
        Applied(ApplyChange(i, 0, BitXor(current_string, settle), sol, m2))
      Missed(r) ==
        IF r.exc # "none"
          THEN [m |-> [m1 EXCEPT !.exc = r.exc], sol |-> sol, ret |-> UNSOLVED,
                going |-> FALSE]
        ELSE IF ~r.ret
          THEN [m |-> [m1 EXCEPT !.q = clear(@)], sol |-> sol, ret |-> CONFLICT,
                going |-> FALSE]
        ELSE Settled(r.settle,
                     [m1 EXCEPT !.cache = insert_hash(@, prob[i], current_string, r.settle)])
      Looked(hit) ==
        IF hit.found THEN Settled(hit.settle, m1)
        ELSE Missed(RunDp(prob[i], current_string))
  IN Looked(IF m.nocache THEN [found |-> FALSE, settle |-> 0]
            ELSE find_hash(m.cache, prob[i], current_string))

\* The caller calls line_solver on the board it has prepared (line 112).
DriverCall ==
  /\ pc \in {"fresh", "preset"}
  /\ todo = {}
  /\ pc' = "draining"
  /\ call' = "line_solver"
  /\ UNCHANGED <<lineVars, heap, myQ, db_table, line_cache, if_guess_black_board,
                 if_guess_white_board, verify_black_board, verify_white_board,
                 problem, solution, one_solution, is_find_solution, node_count, stack,
                 checkpoint, result, raised, todo, probed, puzzles>>

\* Lines 114-171: the queue is not empty and one line is popped and solved.
DriverPop ==
  /\ pc = "draining"
  /\ ~is_empty(myQ)
  /\ LET Passed(r) ==
           /\ Finish("line_solver", r.m, r.ret, IF r.going THEN "draining" ELSE "propagated")
           /\ solution' = r.sol
     IN Passed(line_solver_pass(problem, solution, Mach))
  /\ UNCHANGED <<lineVars, problem, one_solution, is_find_solution, node_count, stack,
                 checkpoint, todo, probed, puzzles>>

\* Lines 114 and 173-177: the queue is empty and the driver returns.
DriverReturn ==
  /\ pc = "draining"
  /\ is_empty(myQ)
  /\ pc' = "propagated"
  /\ result' = IF solution.num_of_square_on_board = S_SIZE THEN SOLVED ELSE UNSOLVED
  /\ UNCHANGED <<lineVars, heap, myQ, db_table, line_cache, if_guess_black_board,
                 if_guess_white_board, verify_black_board, verify_white_board,
                 problem, solution, one_solution, is_find_solution, node_count, stack,
                 checkpoint, call, raised, todo, probed, puzzles>>

NextDriver ==
  \/ InitBoard
  \/ SetAndFlag
  \/ DriverCall
  \/ DriverPop
  \/ DriverReturn

SpecDriver == Init /\ [][NextDriver]_vars

\* The words of line l of the board (columns first).
LineWordOf(l, b, h) == IF l < P_SIZE THEN h[b.col_string][l] ELSE h[b.row_string][l - P_SIZE]

\* A pass of the driver queues a line only if it has cleared a bit of it.
RequeuedOnlyWhenCleared ==
  \A l \in Lines :
    (myQ'.in_q[l] /\ ~myQ.in_q[l])
      => /\ LineWordOf(l, solution', heap') # LineWordOf(l, solution, heap)
         /\ AndNot(LineWordOf(l, solution', heap'), LineWordOf(l, solution, heap)) = 0

\* The bits still set in the row words of board b, and the lines waiting in
\* queue q: a pass of the loop lowers the first or keeps it and lowers the
\* second.
RECURSIVE BoardBits(_, _, _)
BoardBits(b, h, y) ==
  IF y = P_SIZE THEN 0 ELSE PopCount(h[b.row_string][y]) + BoardBits(b, h, y + 1)

Waiting(q) == (q.r_pos - q.f_pos + max_size) % max_size

PassAdvances ==
  \/ BoardBits(solution', heap', 0) < BoardBits(solution, heap, 0)
  \/ /\ BoardBits(solution', heap', 0) = BoardBits(solution, heap, 0)
     /\ Waiting(myQ') < Waiting(myQ)

\* C34 (the driver): a call of the driver ends only by returning SOLVED,
\* UNSOLVED or CONFLICT with the queue drained, never otherwise; while it
\* runs, every pass of its loop clears a bit of the board or shortens the
\* queue, and queues a line again only when it has cleared a bit of it.
C34_DriverTerminates ==
  [][pc = "draining" =>
       /\ pc' \in {"draining", "propagated"}
       /\ pc' = "propagated" => (is_empty(myQ') /\ result' \in {SOLVED, UNSOLVED, CONFLICT})
       /\ pc' = "draining" => (RequeuedOnlyWhenCleared /\ PassAdvances)]_vars
\* ------------------------------------------------- the frames of the search
\* The cells of board b that hold one colour.
DeterminedCells(b, h) ==
  { c \in AllCells : get_square(c[1], c[2], b, h) \in {SQUARE_BLOCK, SQUARE_SPACE} }

\* Branch g of the stalled Prober run t keeps the colour of every determined
\* cell of the board of t and determines the branching cell as well.
BranchExtends(g, t) ==
  /\ \A c \in DeterminedCells(t.cb, t.m.heap) :
       get_square(c[1], c[2], g, t.m.heap) = get_square(c[1], c[2], t.cb, t.m.heap)
  /\ BranchCell(t) \in DeterminedCells(g, t.m.heap) \ DeterminedCells(t.cb, t.m.heap)
  /\ Cardinality(DeterminedCells(g, t.m.heap)) > Cardinality(DeterminedCells(t.cb, t.m.heap))

\* C35: when the Prober stalls (returns UNSOLVED), first_go and second_go each
\* keep every determined cell of the current board with its colour and
\* determine the branching cell too, so each has more determined cells than
\* the board; the depth of the search is never above N * N, and a step of the
\* resumable search indexes step[depth] and where_can_i_go[depth] only with
\* 0 <= depth < STACK_MAX_DEPTH.
C35_BranchesAdvance ==
  /\ pc = "stepping" => (stack.depth >= 0 /\ stack.depth < STACK_MAX_DEPTH /\ stack.depth <= S_SIZE)
  /\ ProberEntry =>
       LET Probed(t) ==
             (t.m.exc = "none" /\ t.ret = UNSOLVED) =>
               (BranchExtends(t.wcig.first_go, t) /\ BranchExtends(t.wcig.second_go, t))
       IN Probed(two_sat_solver(problem, stack.solution,
                                stack.where_can_i_go[PyIndex(stack.depth)], Mach))

\* ------------------------------------------------ the queue when the driver returns
\* No line is in the queue and no membership flag is set.
Drained(q) == is_empty(q) /\ \A l \in Lines : ~q.in_q[l]

\* C36: when line_solver returns SOLVED, UNSOLVED or CONFLICT the work queue
\* is empty and no membership flag is set; when it returns CONFLICT, the board
\* (row words, column words and counter) is the one the failing line was
\* popped from, and the lines that were pending are gone from the queue.
C36_DrainedAtReturn ==
  [][(pc = "draining" /\ pc' = "propagated") =>
       /\ result' \in {SOLVED, UNSOLVED, CONFLICT}
       /\ Drained(myQ')
       /\ result' = CONFLICT =>
            /\ BoardWords(solution', heap') = BoardWords(solution, heap)
            /\ solution'.num_of_square_on_board = solution.num_of_square_on_board]_vars

\* C36 witness: the driver, called with all lines queued, has returned
\* CONFLICT after popping fewer lines than were queued, and the queue is
\* drained although data_q still names the lines that were pending.
C36_Witness ==
  /\ pc = "propagated" /\ call = "line_solver" /\ result = CONFLICT
  /\ Cardinality(db_table.this_temp_table) < 2 * P_SIZE
  /\ Cardinality(db_table.this_temp_table) > 1
  /\ Drained(myQ)
  /\ \E k \in DOMAIN myQ.data_q : myQ.data_q[k] \in Lines \ db_table.this_temp_table

\* ------------------------------------------------------ the stalled Prober
\* The cells of board b that are UNKNOWN.
UnknownCells(b, h) == { c \in AllCells : get_square(c[1], c[2], b, h) = SQUARE_UNKNOWN }

\* A probe of cell c on the board as the Prober left it has both trials
\* UNSOLVED and clears no bit of the board.
FreshProbeIdle(c) ==
  LET Probed(r) ==
        /\ r.m.exc = "none"
        /\ r.ret = UNSOLVED
        /\ BoardWords(r.cb, r.m.heap) = BoardWords(solution, heap)
  IN Probed(solve_one_two_sat(problem, solution, if_guess_black_board[c[1]][c[2]],
                              if_guess_white_board[c[1]][c[2]], c[1], c[2],
                              [Mach EXCEPT !.db.this_update_table = {}]))

\* The Prober without the filter: a sweep probes every UNKNOWN cell (lines
\* 141-158 without the test of lines 144-145), and the sweeps go on as in
\* lines 137-162.
RECURSIVE SweepAll(_, _, _, _)
SweepAll(idx, pz, cb, m) ==
  IF idx >= S_SIZE THEN [m |-> m, cb |-> cb, done |-> FALSE, ret |-> UNSOLVED]
  ELSE
    LET i == idx \div P_SIZE
        j == idx % P_SIZE
        Probed(r) ==
          LET m1 == [r.m EXCEPT !.sb[i][j] = r.gb, !.sw[i][j] = r.gw]
          IN IF r.m.exc # "none" \/ r.ret = SOLVED \/ r.ret = CONFLICT
               THEN [m |-> m1, cb |-> r.cb, done |-> TRUE, ret |-> r.ret]
             ELSE SweepAll(idx + 1, pz, r.cb,
                           [m1 EXCEPT !.db.point_tables[i][j] = m1.db.this_update_table])
    IN IF get_square(i, j, cb, m.heap) = SQUARE_UNKNOWN
         THEN Probed(solve_one_two_sat(pz, cb, m.sb[i][j], m.sw[i][j], i, j,
                                       [m EXCEPT !.db.this_update_table = {}]))
       ELSE SweepAll(idx + 1, pz, cb, m)

RECURSIVE ProbeAllLoop(_, _, _)
ProbeAllLoop(pz, cb, m) ==
  LET d == deepcopy(cb, m.heap)
      Swept(s) ==
        IF s.done \/ s.m.db.temp_update_table = {}
          THEN [m |-> s.m, cb |-> s.cb, ret |-> IF s.done THEN s.ret ELSE UNSOLVED]
        ELSE ProbeAllLoop(pz, s.cb, s.m)
  IN Swept(SweepAll(0, pz, cb, [m EXCEPT !.db.temp_update_table = {}, !.heap = d.heap]))

\* The driver has returned and two_sat_solver is called next.
ProberCalled ==
  pc = "propagated" /\ call = "line_solver" /\ result \in {UNSOLVED, CONFLICT}

\* two_sat_solver ends as the Prober without the filter does: the same
\* exception or the same result on the same board.
SameAsUnfiltered ==
  LET Both(t, a) ==
        /\ t.m.exc = a.m.exc
        /\ t.m.exc = "none" =>
             /\ t.ret = a.ret
             /\ BoardWords(t.cb, t.m.heap) = BoardWords(a.cb, a.m.heap)
             /\ t.cb.num_of_square_on_board = a.cb.num_of_square_on_board
      Made(g) == Both(two_sat_solver(problem, solution, g.wcig, [Mach EXCEPT !.heap = g.heap]),
                      ProbeAllLoop(problem, solution, [Mach EXCEPT !.heap = g.heap]))
  IN Made(SquareToGo(heap))

\* two_sat_solver has stalled and returned UNSOLVED.
ProberStalled == pc = "swept" /\ call = "two_sat_solver" /\ result = UNSOLVED

C38_DpInBounds ==
  (lpc = "done" /\ ClueFits(lclue)) => lres.exc = "none"

====
